---- MODULE Spec2Model ----
(***************************************************************************)
(* A model of the zhipu-copilot-gateway:                                   *)
(*   - handleChatRequest of src/routes/chat.ts (validation, model mapping, *)
(*     the buffered reply and the SSE re-framing of the upstream stream);  *)
(*   - the reverse-proxy bridge of src/server.ts (proxyRes, the clientSink *)
(*     tee, the termination handlers, the proxy error handler and the      *)
(*     exchange recorder).                                                 *)
(* Spec and SpecRequest run one chat exchange, SpecProxy one proxied       *)
(* request.                                                                *)
(***************************************************************************)
EXTENDS Integers, Sequences, FiniteSets, TLC

VARIABLES
    \* ---- handleChatRequest (routes/chat.ts)
    pc,            \* position of the handler: idle, awaitStream, awaitOnce, streaming, done
    endpoint,      \* 'completions' | 'responses'
    requestedModel,\* openaiReq.model (a character sequence once validated)
    upstreamCalls, \* the requests handed to axios.post, in order
    status,        \* status code committed on the client response (0: none yet)
    headLog,       \* every commit of a status line and headers, in order
    replyBody,     \* the JSON body sent with reply.send (ReplyNone: none)
    out,           \* the SSE frames written to reply.raw, in order
    ended,         \* reply.raw.writableEnded
    lateWrites,    \* a reply.raw.write call was made after end() (its bytes are dropped)
    clientClosedAt, \* -1 while the client is connected, else the number of frames
                   \* written when its connection closed
    streamBuffer,  \* the line-reassembly buffer
    roleSent,      \* the role-announcement flag
    requestId,     \* the id pinned for the frames of this exchange
    created,       \* the created value pinned for the frames of this exchange
    upPending,     \* bytes of the upstream line in flight, not yet delivered
    linesBegun,    \* number of upstream lines begun
    endSeen,       \* the upstream stream has emitted 'end'
    errorSeen,     \* the upstream stream has emitted 'error'
    endedBy,       \* what ended the client response: "", send, end, error, catch
    inBody,        \* the request body the handler received
    rejected,      \* message of the error the upstream call rejected with ("": none)
    upLines,       \* the kinds of the upstream lines begun so far, in order
    onceResp,      \* the buffered upstream response the handler received
    \* ---- reverse-proxy bridge and exchange recorder (server.ts)
    RECORD,        \* process.env.RECORD !== "0"
    pStage,        \* idle, proxying (proxy.web called), piping (proxyRes handled)
    exchanges,     \* the WeakMap entry of the proxied request: 0 (none) or a context id
    ctxFinalized,  \* context id -> its finalized flag
    nCtx,          \* number of ExchangeContexts created for the request
    context,       \* the context captured by the proxyRes closure (0: none)
    records,       \* the consolidated records written, in order
    fsOps,         \* number of filesystem calls made by the recorder
    reqBodyLen,    \* length of the captured request body
    upStatus,      \* proxyRes.statusCode
    pHeadLog,      \* every writeHead on the proxied response, in order
    pOut,          \* what was written to the client socket, in order
    pEnded,        \* res.writableEnded
    closeSeen,     \* res has emitted 'close'
    upEnded,       \* proxyRes has emitted 'end'
    abortedSeen,   \* proxyRes has emitted 'aborted'
    upErrorSeen,   \* proxyRes has emitted 'error'
    sinkErrorSeen, \* clientSink has emitted 'error'
    piped,         \* proxyRes is piped into clientSink
    upDestroyed,   \* proxyRes.destroyed
    upSent,        \* number of chunks proxyRes has produced
    rspFile,       \* rspFile is non-null (the response log stream is open)
    responseBodyPath, \* responseBodyPath is non-null
    wroteResponseBytes,
    fileBytes,     \* bytes written to the response log file
    fileExists,    \* the response log file exists on disk
    preview,       \* the preview buffer
    proxyErrors,   \* number of proxy 'error' events handled
    \* ---- the intercepted POST /v1/chat/completions route (server.ts)
    configInitialized, \* configInitialized
    configInitError,   \* configInitError: N (null) or the message of the cached error
    initCalls,         \* number of invocations of initializeConfig
    intercepted,       \* the intercepted requests, in order of arrival
    \* ---- pure helpers applied to enumerated inputs
    fnName,        \* the helper under evaluation
    fnArg,         \* its argument
    fnSize,        \* its size argument (chunkText)
    fnType,        \* its content-type argument (previewDecode)
    fnResult,      \* its results so far, in order
    \* ---- two streamed exchanges active at the same time (chat.ts)
    streams        \* the closure state of each exchange and what it wrote

chatVars == <<pc, endpoint, requestedModel, upstreamCalls, status, headLog, replyBody,
              out, ended, lateWrites, streamBuffer, roleSent, requestId, created,
              upPending, linesBegun, endSeen, errorSeen, endedBy, inBody, rejected,
              upLines, onceResp, clientClosedAt>>

proxyVars == <<RECORD, pStage, exchanges, ctxFinalized, nCtx, context, records, fsOps,
               reqBodyLen, upStatus, pHeadLog, pOut, pEnded, closeSeen, upEnded,
               abortedSeen, upErrorSeen, sinkErrorSeen, piped, upDestroyed, upSent,
               rspFile, responseBodyPath, wroteResponseBytes, fileBytes, fileExists,
               preview, proxyErrors>>

interceptVars == <<configInitialized, configInitError, initCalls, intercepted>>

pureVars == <<fnName, fnArg, fnSize, fnType, fnResult>>

concurrentVars == <<streams>>

sideVars == <<interceptVars, pureVars, concurrentVars>>

vars == <<chatVars, proxyVars, sideVars>>

----------------------------------------------------------------------------
(* Bounds of the model *)

\* upstream lines begun in one streamed exchange
MaxLines == 2
\* elements of an inbound messages array
MaxMsgs == 2
\* chunks the proxied upstream response produces
MaxChunks == 2
\* proxy 'error' events delivered for one request
MaxProxyErrors == 2
\* intercepted requests received by one process
MaxRequests == 3
\* length of the strings handed to the pure helpers
MaxLen == 4
\* largest chunk size handed to chunkText
MaxSize == 3

----------------------------------------------------------------------------
(* JavaScript values *)

\* undefined, as the value of a string-valued property
U == "undefined"
\* null, as the value of a string-valued property
N == "null"

Truthy(s) == s \notin {U, N, ""}

\* a structured (non-string) JSON value, as the value of a property, and its
\* serialization
ObjValue == "[object Object]"
ObjJson == "{\"a\":1}"

\* typeof x === 'string'
IsStringValue(x) == x \notin {U, N, ObjValue}

\* JSON.stringify(x ?? fallback), fallback being the text of the default
JsonStringify(x, fallback) ==
    IF x \in {U, N} THEN fallback
    ELSE IF x = ObjValue THEN ObjJson
    ELSE x

\* a tool call, in an inbound message or in an upstream response
ToolCall(id, name, args) ==
    [isNull |-> FALSE, hasFunction |-> TRUE, id |-> id, type |-> "function",
     name |-> name, arguments |-> args]

\* an element of a tool_calls array that is not an object (null)
NullToolCall == [ToolCall(U, U, U) EXCEPT !.isNull = TRUE, !.hasFunction = FALSE]

\* model strings are character sequences, so that ':' and a prefix can be found
MStr(s) == [ty |-> "string", v |-> s]
MUndef == [ty |-> "undefined", v |-> <<>>]
MNull == [ty |-> "null", v |-> <<>>]

ModelTagged == <<"g", "l", "m", ":", "t">>
ModelPlain == <<"g", "l", "m">>
ModelOther == <<"x", ":", "t">>
DEFAULT_ZHIPU_MODEL == <<"g", "l", "m", "4">>

\* index of the first ':' of s, 0 when there is none
RECURSIVE FirstColonFrom(_, _)
FirstColonFrom(s, i) ==
    IF i > Len(s) THEN 0
    ELSE IF s[i] = ":" THEN i
    ELSE FirstColonFrom(s, i + 1)

\* model.includes(':') ? model.split(':')[0] : model
normalizeModelName(model) ==
    IF Len(model) = 0 THEN model
    ELSE LET c == FirstColonFrom(model, 1)
         IN IF c = 0 THEN model ELSE SubSeq(model, 1, c - 1)

StartsWithGlm(s) == Len(s) >= 3 /\ SubSeq(s, 1, 3) = <<"g", "l", "m">>

targetModel(requested) ==
    LET normalizedModel == normalizeModelName(requested)
    IN IF StartsWithGlm(normalizedModel) THEN normalizedModel ELSE DEFAULT_ZHIPU_MODEL

----------------------------------------------------------------------------
(* The inbound request *)

\* one element of the inbound messages array
NotAnArray == [isArray |-> FALSE, elems |-> <<>>]
ArrayOf(elems) == [isArray |-> TRUE, elems |-> elems]

MsgNull ==
    [ty |-> "null", roleTy |-> "undefined", role |-> U, content |-> U,
     tool_calls |-> NotAnArray]
MsgString ==
    [ty |-> "string", roleTy |-> "undefined", role |-> U, content |-> "hi",
     tool_calls |-> NotAnArray]
MsgObj(roleTy, role) ==
    [ty |-> "object", roleTy |-> roleTy, role |-> role, content |-> "hi",
     tool_calls |-> NotAnArray]

\* an assistant message that carries tool calls
MsgWithToolCalls(toolCalls) ==
    [MsgObj("string", "assistant") EXCEPT !.tool_calls = ArrayOf(toolCalls)]

\* a tool call without a function property and without a type
BareToolCall == [ToolCall("t4", U, U) EXCEPT !.hasFunction = FALSE, !.type = U]

MsgElems == {MsgNull, MsgString, MsgObj("undefined", U), MsgObj("number", "42"),
             MsgObj("string", "user"), MsgObj("string", "tool"),
             MsgObj("string", "custom"),
             MsgWithToolCalls(<<ToolCall("t1", "fn", ObjValue), ToolCall("t2", "gn", "A")>>),
             MsgWithToolCalls(<<ToolCall("t3", U, N), BareToolCall>>),
             MsgWithToolCalls(<<NullToolCall>>)}

RECURSIVE SeqsUpTo(_, _)
SeqsUpTo(S, n) ==
    IF n = 0 THEN {<<>>}
    ELSE LET shorter == SeqsUpTo(S, n - 1)
         IN shorter \cup {Append(s, x) : s \in shorter, x \in S}

ValidMsgs == ArrayOf(<<MsgObj("string", "user")>>)

Body(model, messages, stream, rest) ==
    [json |-> TRUE, model |-> model, messages |-> messages, stream |-> stream, rest |-> rest]
BadJsonBody == [json |-> FALSE, model |-> MUndef, messages |-> NotAnArray, stream |-> FALSE, rest |-> U]

ModelVals == {MUndef, MNull, MStr(<<>>), MStr(ModelTagged), MStr(ModelPlain), MStr(ModelOther)}

\* the requests of Spec: every model value, a few messages values, both call shapes
StreamBodies ==
    {Body(m, msgs, s, U) :
        m \in ModelVals,
        msgs \in {NotAnArray, ValidMsgs, ArrayOf(<<MsgObj("string", "user"), MsgNull>>)},
        s \in BOOLEAN}
    \cup {BadJsonBody}

\* the requests of SpecRequest: every messages array up to MaxMsgs elements
AllBodies ==
    {Body(m, msgs, s, r) :
        m \in {MUndef, MNull, MStr(<<>>), MStr(ModelTagged), MStr(ModelOther)},
        msgs \in {NotAnArray} \cup {ArrayOf(e) : e \in SeqsUpTo(MsgElems, MaxMsgs)},
        s \in BOOLEAN,
        r \in {U, "temperature"}}
    \cup {BadJsonBody}

\* msg && typeof msg.role === 'string'
HasStringRole(msg) == msg.ty = "object" /\ msg.roleTy = "string"

\* a faulty variant: only the first element is checked
EveryHasStringRoleFirstOnly(elems) == Len(elems) = 0 \/ HasStringRole(elems[1])

EveryHasStringRole(elems) == \A i \in 1..Len(elems) : HasStringRole(elems[i])

\* the validation of handleChatRequest: the error message of the first failing
\* check, "" when the body passes
ValidationError(body) ==
    IF ~body.json THEN "Invalid JSON request body"
    ELSE IF body.model.ty # "string" \/ Len(body.model.v) = 0
        THEN "Missing \"model\" in request body"
    ELSE IF ~body.messages.isArray THEN "\"messages\" must be an array"
    ELSE IF ~EveryHasStringRole(body.messages.elems)
        THEN "Each message must include a string \"role\""
    ELSE ""

\* the callback of normalized.tool_calls.map: an element that is not an object
\* is returned as it is; JSON.stringify does not throw for a value parsed from
\* JSON, so the catch branch is never taken
normalizeInboundToolCall(toolCall) ==
    IF toolCall.isNull THEN toolCall
    ELSE [isNull |-> FALSE, hasFunction |-> TRUE, id |-> toolCall.id,
          type |-> IF toolCall.type \in {U, N} THEN "function" ELSE toolCall.type,
          name |-> IF ~toolCall.hasFunction \/ toolCall.name = U THEN "" ELSE toolCall.name,
          arguments |-> IF ~toolCall.hasFunction THEN JsonStringify(U, "{}")
                        ELSE IF IsStringValue(toolCall.arguments) THEN toolCall.arguments
                        ELSE JsonStringify(toolCall.arguments, "{}")]

normalizeInboundToolCalls(tool_calls) ==
    IF ~tool_calls.isArray THEN tool_calls
    ELSE ArrayOf([i \in 1..Len(tool_calls.elems) |->
                     normalizeInboundToolCall(tool_calls.elems[i])])

normalizeInboundMessage(msg) ==
    IF msg.ty # "object"
    THEN [ty |-> "object", roleTy |-> "string", role |-> "user",
          content |-> IF msg.ty = "string" THEN msg.content ELSE U,
          tool_calls |-> NotAnArray]
    ELSE LET normalized == [msg EXCEPT !.tool_calls = normalizeInboundToolCalls(@)]
         IN IF normalized.roleTy # "string"
            THEN [normalized EXCEPT !.roleTy = "string", !.role = "user"]
            ELSE normalized

\* a faulty variant: the messages are sent in reverse order
MapNormalizeReversed(elems) ==
    [i \in 1..Len(elems) |-> normalizeInboundMessage(elems[Len(elems) + 1 - i])]

MapNormalize(elems) == [i \in 1..Len(elems) |-> normalizeInboundMessage(elems[i])]

\* the own properties of the parsed client body, by key; "rest" stands for
\* every key other than model, messages and stream
ClientFields(body) ==
    [model |-> body.model.v, messages |-> body.messages.elems,
     stream |-> body.stream, rest |-> body.rest]

\* a faulty variant: model is not taken out of the body
DestructureRestKeepsModel(body) == [keys |-> {"model", "rest"}, from |-> ClientFields(body)]

\* const { model, messages, stream, ...rest } = openaiReq: rest holds the
\* properties of the body that are not named in the pattern
DestructureRest(body) == [keys |-> {"rest"}, from |-> ClientFields(body)]

\* { ...target, ...part }: a property of part replaces the one of target
SpreadOver(target, part) ==
    [model |-> IF "model" \in part.keys THEN part.from.model ELSE target.model,
     messages |-> IF "messages" \in part.keys THEN part.from.messages ELSE target.messages,
     stream |-> IF "stream" \in part.keys THEN part.from.stream ELSE target.stream,
     rest |-> IF "rest" \in part.keys THEN part.from.rest ELSE target.rest]

\* { model: targetModel, messages: messages.map(normalizeInboundMessage), ...rest }
zhipuReq(body) ==
    SpreadOver([model |-> targetModel(body.model.v),
                messages |-> MapNormalize(body.messages.elems),
                stream |-> U, rest |-> U],
               DestructureRest(body))

\* axios.post(url, { ...req, stream: true }, ...)
zhipuChatStream(req) == [model |-> req.model, messages |-> req.messages, rest |-> req.rest, stream |-> TRUE]
\* axios.post(url, { ...req, stream: false }, ...)
zhipuChatOnce(req) == [model |-> req.model, messages |-> req.messages, rest |-> req.rest, stream |-> FALSE]

\* the JSON bodies of reply.send
ReplyNone ==
    [error |-> U, detail |-> U, object |-> U, id |-> U, created |-> 0, model |-> <<>>,
     items |-> <<>>, usage |-> U]
ErrorReply(error, detail) == [ReplyNone EXCEPT !.error = error, !.detail = detail]

----------------------------------------------------------------------------
(* The upstream stream: lines, their bytes, and what they parse to *)

\* a byte of the upstream stream: the "data:" prefix, one half of a payload, a
\* line of another SSE field, or the newline
Tok(k, h) == [k |-> k, h |-> h]
DataPrefix == Tok("data:", 0)
OtherField == Tok("event:", 0)
NL == Tok("nl", 0)

\* a content text whose last character takes several bytes in UTF-8, and what
\* is decoded when those bytes are decoded in two parts: each part becomes
\* the replacement character
WideText == "H[e-acute]"
WideTextDamaged == "H[U+FFFD][U+FFFD]"

\* the JSON payloads the upstream sends
NoChunk ==
    [id |-> "", created |-> 0, hasChoice |-> FALSE, content |-> U, tool_calls |-> <<>>,
     finish_reason |-> N, usage |-> U]
Chunk(id, created_, content, tool_calls, finish_reason, usage) ==
    [id |-> id, created |-> created_, hasChoice |-> TRUE, content |-> content,
     tool_calls |-> tool_calls, finish_reason |-> finish_reason, usage |-> usage]

JsonKinds == {"content", "content2", "contentNoId", "tool", "toolCont", "tool2",
              "finish", "finishUsage", "usageOnly", "finishEmpty", "toolNullFinish",
              "contentWide"}
LineKinds == JsonKinds \cup {"DONE", "badJson", "otherField"}

Payload(kind) ==
    CASE kind = "content" -> Chunk("up1", 1, "Hel", <<>>, N, U)
      [] kind = "content2" -> Chunk("up2", 2, "lo", <<>>, N, U)
      [] kind = "contentNoId" -> Chunk("", 0, "Hel", <<>>, N, U)
      [] kind = "tool" -> Chunk("up1", 1, U, <<ToolCall("t1", "fn", "A")>>, N, U)
      [] kind = "toolCont" -> Chunk("up1", 1, U, <<ToolCall(U, U, "B")>>, N, U)
      [] kind = "tool2" ->
            Chunk("up1", 1, U, <<[ToolCall("t1", "fn", "A") EXCEPT !.type = "tool"],
                                 ToolCall(U, "gn", "")>>, N, U)
      [] kind = "finish" -> Chunk("up1", 1, U, <<>>, "stop", U)
      [] kind = "finishUsage" -> Chunk("up1", 1, "", <<>>, "stop", "usage1")
      [] kind = "contentWide" -> Chunk("up1", 1, WideText, <<>>, N, U)
      [] kind = "finishEmpty" -> Chunk("up1", 1, "Hel", <<>>, "", U)
      [] kind = "toolNullFinish" -> Chunk("up1", 1, U, <<NullToolCall>>, "tool_calls", U)
      [] kind = "usageOnly" -> [NoChunk EXCEPT !.id = "up1", !.created = 1, !.usage = "usage1"]
      [] OTHER -> NoChunk

\* the bytes of one upstream line, newline included
Encode(kind) ==
    IF kind = "otherField" THEN <<OtherField, NL>>
    ELSE <<DataPrefix, Tok(kind, 1), Tok(kind, 2), NL>>

\* streamBuffer.split('\n'): the complete lines of a byte sequence, and the rest
RECURSIVE SplitLines(_, _, _)
SplitLines(bytes, cur, lines) ==
    IF bytes = <<>> THEN [lines |-> lines, rest |-> cur]
    ELSE IF Head(bytes) = NL THEN SplitLines(Tail(bytes), <<>>, Append(lines, cur))
    ELSE SplitLines(Tail(bytes), Append(cur, Head(bytes)), lines)

\* line.startsWith('data:')
StartsWithData(line) == Len(line) >= 1 /\ line[1] = DataPrefix

\* line.substring(5).trim()
DataStr(line) == Tail(line)

\* chunk.toString('utf-8'): the bytes of one chunk decoded on their own. The
\* two halves of a "contentWide" payload meet inside a multi-byte character:
\* a chunk that ends with the first half (h = 1) decodes it with a trailing
\* replacement character (h = 3), a chunk that starts with the second half
\* (h = 2) decodes it with a leading one (h = 4)
Decode(chunk) ==
    [i \in 1..Len(chunk) |->
        IF chunk[i].k = "contentWide" /\ chunk[i].h = 1 /\ i = Len(chunk)
            THEN Tok("contentWide", 3)
        ELSE IF chunk[i].k = "contentWide" /\ chunk[i].h = 2 /\ i = 1
            THEN Tok("contentWide", 4)
        ELSE chunk[i]]

\* the text is the two halves of one payload, each intact or each decoded on
\* its own side of a chunk boundary
IsWhole(dataStr) ==
    /\ Len(dataStr) = 2
    /\ dataStr[1].k = dataStr[2].k
    /\ dataStr[1].h \in {1, 3}
    /\ dataStr[2].h \in {2, 4}

\* JSON.parse(dataStr) of a text that parses
Parse(dataStr) ==
    IF dataStr[1].h = 3 \/ dataStr[2].h = 4
    THEN [Payload(dataStr[1].k) EXCEPT !.content = WideTextDamaged]
    ELSE Payload(dataStr[1].k)

\* dataStr === '[DONE]'
IsDoneSentinel(dataStr) == IsWhole(dataStr) /\ dataStr[1].k = "DONE"

\* JSON.parse(dataStr) succeeds
JsonParses(dataStr) == IsWhole(dataStr) /\ dataStr[1].k \in JsonKinds

----------------------------------------------------------------------------
(* The client frames *)

LocalRequestId == "chatcmpl-local"
LocalCreated == 9

DoneFrame ==
    [kind |-> "DONE", object |-> U, id |-> "", created |-> 0, model |-> <<>>,
     outIdx |-> -1, outType |-> U, role |-> U, content |-> U, textType |-> U,
     tcIndex |-> -1, tcId |-> U, tcType |-> U, name |-> U, arguments |-> U,
     finish_reason |-> U, usage |-> U]

isCompletions == endpoint = "completions"

\* a faulty variant: the frames carry the resolved upstream model
baseChunkTargetModel(st) ==
    [DoneFrame EXCEPT !.kind = "base", !.id = st.requestId,
        !.object = IF isCompletions THEN "chat.completion.chunk" ELSE "response.chunk",
        !.created = st.created, !.model = targetModel(requestedModel)]

baseChunk(st) ==
    [DoneFrame EXCEPT !.kind = "base", !.id = st.requestId,
        !.object = IF isCompletions THEN "chat.completion.chunk" ELSE "response.chunk",
        !.created = st.created, !.model = requestedModel]

\* the frame of a choices[0] delta, or of an outputs[0] delta with its id and type
Shaped(frame, i, outType) ==
    IF isCompletions THEN frame
    ELSE [frame EXCEPT !.outIdx = i, !.outType = outType]

roleFrame(st) ==
    Shaped([baseChunk(st) EXCEPT !.kind = "role", !.role = "assistant"], 0, "message")

contentFrame(st, text) ==
    Shaped([baseChunk(st) EXCEPT !.kind = "content", !.content = text,
                !.textType = IF isCompletions THEN U ELSE "output_text"], 0, "message")

toolHeaderFrame(st, i, toolCall) ==
    Shaped([baseChunk(st) EXCEPT !.kind = "toolHeader", !.tcIndex = i, !.tcId = toolCall.id,
                !.tcType = "function", !.name = toolCall.name, !.arguments = ""],
           i, "tool_call")

toolArgsFrame(st, i, toolCall) ==
    Shaped([baseChunk(st) EXCEPT !.kind = "toolArgs", !.tcIndex = i,
                !.arguments = IF Truthy(toolCall.arguments) THEN toolCall.arguments ELSE ""],
           i, "tool_call")

\* a faulty variant: the usage totals are left out of the terminal frame
finishFrameNoUsage(st, finishReason, usage) ==
    Shaped([baseChunk(st) EXCEPT !.kind = "finish", !.finish_reason = finishReason], 0, "message")

finishFrame(st, finishReason, usage) ==
    Shaped([baseChunk(st) EXCEPT !.kind = "finish", !.finish_reason = finishReason,
                !.usage = IF Truthy(usage) THEN usage ELSE U], 0, "message")

\* a faulty variant: the argument fragment is written before the header
toolCallFramesArgsFirst(st, i, toolCall) ==
    <<toolArgsFrame(st, i, toolCall), toolHeaderFrame(st, i, toolCall)>>

\* the two frames written for one tool call of delta.tool_calls
toolCallFrames(st, i, toolCall) ==
    <<toolHeaderFrame(st, i, toolCall), toolArgsFrame(st, i, toolCall)>>

\* the loop over delta.tool_calls from index i (0-based) on: the frames written,
\* and whether an element threw
RECURSIVE toolCallsLoop(_, _, _)
toolCallsLoop(st, tcs, i) ==
    IF i >= Len(tcs) THEN [frames |-> <<>>, threw |-> FALSE]
    ELSE LET toolCall == tcs[i + 1]
         IN IF toolCall.isNull THEN [frames |-> <<>>, threw |-> TRUE]
            ELSE LET later == toolCallsLoop(st, tcs, i + 1)
                 IN IF ~toolCall.hasFunction \/ ~Truthy(toolCall.name) THEN later
                    ELSE [frames |-> toolCallFrames(st, i, toolCall) \o later.frames,
                          threw |-> later.threw]

\* a faulty variant: the role announcement is written for every upstream frame
announceRoleAlways(st) ==
    [st EXCEPT !.frames = Append(@, roleFrame(st)), !.roleSent = TRUE]

\* if (!roleSent) { writeSse(role frame); roleSent = true }
announceRole(st) ==
    IF st.roleSent THEN st
    ELSE [st EXCEPT !.frames = Append(@, roleFrame(st)), !.roleSent = TRUE]

\* a faulty variant: every upstream frame overwrites the id and created
pinIdentityAlways(st, zhipuChunk) ==
    [st EXCEPT
        !.requestId = IF Truthy(zhipuChunk.id) THEN zhipuChunk.id ELSE @,
        !.created = IF zhipuChunk.created # 0 THEN zhipuChunk.created ELSE @]

\* if (zhipuChunk.id && !roleSent) requestId = zhipuChunk.id;
\* if (zhipuChunk.created && !roleSent) created = zhipuChunk.created;
pinIdentity(st, zhipuChunk) ==
    [st EXCEPT
        !.requestId = IF Truthy(zhipuChunk.id) /\ ~st.roleSent THEN zhipuChunk.id ELSE @,
        !.created = IF zhipuChunk.created # 0 /\ ~st.roleSent THEN zhipuChunk.created ELSE @]

\* the body of the try block for one parsed upstream frame
processChunk(st, zhipuChunk) ==
    LET st1 == pinIdentity(st, zhipuChunk)
        st2 == announceRole(st1)
    IN IF ~zhipuChunk.hasChoice THEN st2
       ELSE
         LET withContent ==
                 IF Truthy(zhipuChunk.content)
                 THEN Append(st2.frames, contentFrame(st2, zhipuChunk.content))
                 ELSE st2.frames
             tools == toolCallsLoop(st2, zhipuChunk.tool_calls, 0)
             withTools == withContent \o tools.frames
         IN IF tools.threw THEN [st2 EXCEPT !.frames = withTools]
            ELSE IF Truthy(zhipuChunk.finish_reason)
            THEN [st2 EXCEPT !.frames =
                    Append(withTools,
                           finishFrame(st2, zhipuChunk.finish_reason, zhipuChunk.usage))]
            ELSE [st2 EXCEPT !.frames = withTools]

\* a faulty variant: the upstream sentinel is forwarded
processLineForwardDone(st, line) ==
    IF ~StartsWithData(line) THEN st
    ELSE IF IsDoneSentinel(DataStr(line)) THEN [st EXCEPT !.frames = Append(@, DoneFrame)]
    ELSE IF ~JsonParses(DataStr(line)) THEN st
    ELSE processChunk(st, Parse(DataStr(line)))

\* a faulty variant: a line that fails to parse resets the role announcement
processLineBadJsonResets(st, line) ==
    IF ~StartsWithData(line) THEN st
    ELSE IF IsDoneSentinel(DataStr(line)) THEN st
    ELSE IF ~JsonParses(DataStr(line)) THEN [st EXCEPT !.roleSent = FALSE]
    ELSE processChunk(st, Parse(DataStr(line)))

\* one iteration of the loop over the complete lines of a chunk
processLine(st, line) ==
    IF ~StartsWithData(line) THEN st
    ELSE IF IsDoneSentinel(DataStr(line)) THEN st
    ELSE IF ~JsonParses(DataStr(line)) THEN st
    ELSE processChunk(st, Parse(DataStr(line)))

RECURSIVE processLines(_, _)
processLines(st, lines) ==
    IF lines = <<>> THEN st
    ELSE processLines(processLine(st, Head(lines)), Tail(lines))

----------------------------------------------------------------------------
(* The buffered upstream response and the non-streaming reply *)

Choice(mcontent, dcontent, hasToolCalls, tool_calls, finish_reason) ==
    [mcontent |-> mcontent, dcontent |-> dcontent, hasToolCalls |-> hasToolCalls,
     tool_calls |-> tool_calls, finish_reason |-> finish_reason]

OnceResp(model, choices, usage) ==
    [id |-> "up1", created |-> 1, model |-> model, choices |-> choices, usage |-> usage]
NoOnceResp == OnceResp(<<>>, <<>>, U)

\* the buffered responses the upstream returns to a request for model m
OnceResponses(m) ==
    {OnceResp(m, <<Choice("Hello there!", U, FALSE, <<>>, "stop")>>, "usage1"),
     OnceResp(m, <<Choice(U, "Hel", FALSE, <<>>, U)>>, U),
     OnceResp(m, <<Choice(N, U, TRUE, <<ToolCall(U, U, U), ToolCall("t1", "fn", "A")>>,
                          "tool_calls")>>, U),
     OnceResp(m, <<Choice(N, U, TRUE,
                          <<NullToolCall,
                            [ToolCall("t2", "", ObjValue) EXCEPT !.type = "other"],
                            [ToolCall("", U, U) EXCEPT !.hasFunction = FALSE]>>,
                          "tool_calls")>>, U),
     OnceResp(m, <<>>, U)}

extractChoiceContent(choice) ==
    IF choice.mcontent \notin {U, N} THEN choice.mcontent
    ELSE IF choice.dcontent \notin {U, N} THEN choice.dcontent
    ELSE ""

\* a faulty variant: the upstream name is kept as it is
normalizeToolCallKeepName(t) ==
    [isNull |-> FALSE, hasFunction |-> TRUE,
     id |-> IF ~t.isNull /\ Truthy(t.id) THEN t.id ELSE "call_uuid",
     type |-> "function",
     name |-> IF ~t.isNull /\ t.hasFunction THEN t.name ELSE "unnamed",
     arguments |-> IF t.isNull \/ ~t.hasFunction THEN ""
                   ELSE IF IsStringValue(t.arguments) THEN t.arguments
                   ELSE JsonStringify(t.arguments, "{}")]

\* the callback of toolCalls.map in normalizeToolCalls
normalizeToolCall(t) ==
    [isNull |-> FALSE, hasFunction |-> TRUE,
     id |-> IF ~t.isNull /\ Truthy(t.id) THEN t.id ELSE "call_uuid",
     type |-> "function",
     name |-> IF ~t.isNull /\ t.hasFunction /\ Truthy(t.name) THEN t.name ELSE "unnamed",
     arguments |-> IF t.isNull \/ ~t.hasFunction THEN ""
                   ELSE IF IsStringValue(t.arguments) THEN t.arguments
                   ELSE JsonStringify(t.arguments, "{}")]

normalizeToolCalls(toolCalls) ==
    [i \in 1..Len(toolCalls) |-> normalizeToolCall(toolCalls[i])]

\* one element of choices (completions) or of outputs (responses)
ReplyItem(c, idx) ==
    LET text == extractChoiceContent(c)
    IN [index |-> idx,
        role |-> "assistant",
        content |-> IF isCompletions
                    THEN (IF c.hasToolCalls THEN N ELSE text)
                    ELSE text,
        hasToolCalls |-> c.hasToolCalls,
        tool_calls |-> IF c.hasToolCalls THEN normalizeToolCalls(c.tool_calls) ELSE <<>>,
        finish_reason |-> IF c.finish_reason \in {U, N} THEN "stop" ELSE c.finish_reason]

\* the body of the 200 reply of the non-streaming path
onceReply(zhipuResp) ==
    [ReplyNone EXCEPT
        !.id = zhipuResp.id,
        !.object = IF isCompletions THEN "chat.completion" ELSE "response",
        !.created = zhipuResp.created,
        !.model = requestedModel,
        !.items = [i \in 1..Len(zhipuResp.choices) |-> ReplyItem(zhipuResp.choices[i], i - 1)],
        !.usage = zhipuResp.usage]

----------------------------------------------------------------------------
(* handleChatRequest *)

Endpoints == {"completions", "responses"}
ErrorDetails == {"connect ECONNREFUSED", "socket hang up"}

InitChat ==
    /\ pc = "idle"
    /\ endpoint = "completions"
    /\ requestedModel = <<>>
    /\ upstreamCalls = <<>>
    /\ status = 0
    /\ headLog = <<>>
    /\ replyBody = ReplyNone
    /\ out = <<>>
    /\ ended = FALSE
    /\ lateWrites = FALSE
    /\ streamBuffer = <<>>
    /\ roleSent = FALSE
    /\ requestId = ""
    /\ created = 0
    /\ upPending = <<>>
    /\ linesBegun = 0
    /\ endSeen = FALSE
    /\ errorSeen = FALSE
    /\ endedBy = ""
    /\ inBody = BadJsonBody
    /\ rejected = ""
    /\ upLines = <<>>
    /\ onceResp = NoOnceResp
    /\ clientClosedAt = -1

streamVars == <<streamBuffer, roleSent, requestId, created, upPending, linesBegun,
                endSeen, errorSeen, upLines>>

\* reply.code(code).headers(CORS_HEADERS).send(body)
Send(code, body) ==
    /\ status' = code
    /\ headLog' = Append(headLog, code)
    /\ replyBody' = body
    /\ ended' = TRUE
    /\ endedBy' = "send"

\* the handler up to its first await: parse, validate, build the upstream request
\* and issue the upstream call
Receive(body, ep) ==
    /\ pc = "idle"
    /\ endpoint' = ep
    /\ inBody' = body
    /\ IF ValidationError(body) # ""
       THEN /\ Send(400, ErrorReply(ValidationError(body), U))
            /\ pc' = "done"
            /\ UNCHANGED <<requestedModel, upstreamCalls>>
       ELSE /\ requestedModel' = body.model.v
            /\ upstreamCalls' = Append(upstreamCalls,
                                       IF body.stream THEN zhipuChatStream(zhipuReq(body))
                                       ELSE zhipuChatOnce(zhipuReq(body)))
            /\ pc' = IF body.stream THEN "awaitStream" ELSE "awaitOnce"
            /\ UNCHANGED <<status, headLog, replyBody, ended, endedBy>>
    /\ UNCHANGED <<out, lateWrites, rejected, streamVars, proxyVars, sideVars, clientClosedAt, onceResp>>

\* a faulty variant: the failure is reported as an internal error
catchUpstreamErrorAs500(detail) ==
    /\ Send(500, ErrorReply("Internal Server Error", U))

\* the catch blocks of the streaming and of the non-streaming path
catchUpstreamError(detail) ==
    IF headLog = <<>>
    THEN Send(502, ErrorReply("Upstream API error", detail))
    ELSE /\ ended' = TRUE
         /\ endedBy' = IF ended THEN endedBy ELSE "catch"
         /\ UNCHANGED <<status, headLog, replyBody>>

\* await zhipuChatStream(zhipuReq) resolves: the 200 SSE headers are written and
\* the per-exchange state is set up
StreamResolved ==
    /\ pc = "awaitStream"
    /\ pc' = "streaming"
    /\ status' = 200
    /\ headLog' = Append(headLog, 200)
    /\ streamBuffer' = <<>>
    /\ requestId' = LocalRequestId
    /\ created' = LocalCreated
    /\ roleSent' = FALSE
    /\ UNCHANGED <<endpoint, requestedModel, upstreamCalls, replyBody, out, ended,
                   lateWrites, upPending, linesBegun, endSeen, errorSeen, endedBy,
                   inBody, rejected, upLines, proxyVars, sideVars, clientClosedAt, onceResp>>

\* await zhipuChatStream(zhipuReq) rejects
StreamRejected(detail) ==
    /\ pc = "awaitStream"
    /\ pc' = "done"
    /\ rejected' = detail
    /\ catchUpstreamError(detail)
    /\ UNCHANGED <<endpoint, requestedModel, upstreamCalls, inBody, out, lateWrites, streamVars,
                   proxyVars, sideVars, clientClosedAt, onceResp>>

\* await zhipuChatOnce(zhipuReq) resolves
OnceResolved(zhipuResp) ==
    /\ pc = "awaitOnce"
    /\ pc' = "done"
    /\ Send(200, onceReply(zhipuResp))
    /\ onceResp' = zhipuResp
    /\ UNCHANGED <<endpoint, requestedModel, upstreamCalls, inBody, rejected, out, lateWrites, streamVars,
                   proxyVars, sideVars, clientClosedAt>>

\* await zhipuChatOnce(zhipuReq) rejects
OnceRejected(detail) ==
    /\ pc = "awaitOnce"
    /\ pc' = "done"
    /\ rejected' = detail
    /\ catchUpstreamError(detail)
    /\ UNCHANGED <<endpoint, requestedModel, upstreamCalls, inBody, out, lateWrites, streamVars,
                   proxyVars, sideVars, clientClosedAt, onceResp>>

\* the chunks an upstream may deliver next, each with the bytes then left in
\* flight and the number of lines it begins: pending are the bytes in flight,
\* begun the number of lines begun, kinds the lines the upstream may send
ChunksOf(pending, begun, kinds) ==
    {[chunk |-> SubSeq(pending, 1, c), rest |-> SubSeq(pending, c + 1, Len(pending)),
      begun |-> 0, kinds |-> <<>>] : c \in 1..Len(pending)}
    \cup
    UNION {{[chunk |-> pending \o SubSeq(Encode(k), 1, c),
             rest |-> SubSeq(Encode(k), c + 1, Len(Encode(k))), begun |-> 1,
             kinds |-> <<k>>] :
                c \in 1..Len(Encode(k))} :
           k \in IF begun < MaxLines THEN kinds ELSE {}}
    \cup
    {[chunk |-> Encode(k1) \o Encode(k2), rest |-> <<>>, begun |-> 2,
      kinds |-> <<k1, k2>>] :
        k1 \in IF pending = <<>> /\ begun + 2 <= MaxLines THEN kinds ELSE {},
        k2 \in kinds}

NextChunks == ChunksOf(upPending, linesBegun, LineKinds)

\* the buffered responses the upstream may return to the call in flight
PendingOnceResponses ==
    IF upstreamCalls = <<>> THEN {}
    ELSE OnceResponses(upstreamCalls[Len(upstreamCalls)].model)

\* reply.raw.write of a sequence of frames: dropped once the response has ended
WriteFrames(frames) ==
    /\ out' = IF ended THEN out ELSE out \o frames
    /\ lateWrites' = (lateWrites \/ (ended /\ frames # <<>>))

\* zhipuStreamResponse.data.on('data', ...)
OnData(c) ==
    /\ pc = "streaming"
    /\ LET split == SplitLines(streamBuffer \o Decode(c.chunk), <<>>, <<>>)
           st == processLines([roleSent |-> roleSent, requestId |-> requestId,
                               created |-> created, frames |-> <<>>], split.lines)
       IN /\ streamBuffer' = split.rest
          /\ roleSent' = st.roleSent
          /\ requestId' = st.requestId
          /\ created' = st.created
          /\ WriteFrames(st.frames)
    /\ upPending' = c.rest
    /\ linesBegun' = linesBegun + c.begun
    /\ upLines' = upLines \o c.kinds
    /\ UNCHANGED <<pc, endpoint, requestedModel, upstreamCalls, inBody, rejected, status, headLog, replyBody,
                   ended, endSeen, errorSeen, endedBy, proxyVars, sideVars, clientClosedAt, onceResp>>

\* a faulty variant: the sentinel is written but the response is left open
OnEndLeavesOpen ==
    /\ pc = "streaming"
    /\ ~endSeen
    /\ endSeen' = TRUE
    /\ WriteFrames(<<DoneFrame>>)
    /\ UNCHANGED <<pc, endpoint, requestedModel, upstreamCalls, status, headLog, replyBody,
                   streamBuffer, roleSent, requestId, created, upPending, linesBegun,
                   errorSeen, inBody, rejected, upLines, proxyVars, sideVars, clientClosedAt, onceResp,
                   ended, endedBy>>

\* a faulty variant: what is left in the line buffer is handled as a last line
OnEndFlushesBuffer ==
    /\ pc = "streaming"
    /\ ~endSeen
    /\ endSeen' = TRUE
    /\ LET st == processLines([roleSent |-> roleSent, requestId |-> requestId,
                               created |-> created, frames |-> <<>>],
                              IF streamBuffer = <<>> THEN <<>> ELSE <<streamBuffer>>)
       IN /\ roleSent' = st.roleSent
          /\ requestId' = st.requestId
          /\ created' = st.created
          /\ WriteFrames(st.frames \o <<DoneFrame>>)
    /\ streamBuffer' = <<>>
    /\ ended' = TRUE
    /\ endedBy' = IF ended THEN endedBy ELSE "end"
    /\ UNCHANGED <<pc, endpoint, requestedModel, upstreamCalls, status, headLog, replyBody,
                   upPending, linesBegun, errorSeen, inBody, rejected, upLines, proxyVars,
                   sideVars, clientClosedAt, onceResp>>

\* zhipuStreamResponse.data.on('end', ...)
OnEnd ==
    /\ pc = "streaming"
    /\ ~endSeen
    /\ endSeen' = TRUE
    /\ WriteFrames(<<DoneFrame>>)
    /\ ended' = TRUE
    /\ endedBy' = IF ended THEN endedBy ELSE "end"
    /\ UNCHANGED <<pc, endpoint, requestedModel, upstreamCalls, status, headLog, replyBody,
                   streamBuffer, roleSent, requestId, created, upPending, linesBegun,
                   errorSeen, inBody, rejected, upLines, proxyVars, sideVars, clientClosedAt, onceResp>>

\* a faulty variant: the sentinel is written before the response is ended
OnErrorWritesDone ==
    /\ pc = "streaming"
    /\ ~errorSeen
    /\ errorSeen' = TRUE
    /\ WriteFrames(<<DoneFrame>>)
    /\ ended' = TRUE
    /\ endedBy' = IF ended THEN endedBy ELSE "error"
    /\ UNCHANGED <<pc, endpoint, requestedModel, upstreamCalls, status, headLog, replyBody,
                   streamBuffer, roleSent, requestId, created, upPending,
                   linesBegun, endSeen, inBody, rejected, upLines, proxyVars, sideVars, clientClosedAt, onceResp>>

\* zhipuStreamResponse.data.on('error', ...)
OnError ==
    /\ pc = "streaming"
    /\ ~errorSeen
    /\ errorSeen' = TRUE
    /\ ended' = TRUE
    /\ endedBy' = IF ended THEN endedBy ELSE "error"
    /\ UNCHANGED <<pc, endpoint, requestedModel, upstreamCalls, status, headLog, replyBody,
                   out, lateWrites, streamBuffer, roleSent, requestId, created, upPending,
                   linesBegun, endSeen, inBody, rejected, upLines, proxyVars, sideVars, clientClosedAt, onceResp>>

\* the client closes its connection during the streamed response: the streaming
\* branch registers no listener for it on the request or on reply.raw, so no
\* handler runs and the subscription to the upstream stream stays as it is
ClientDisconnect ==
    /\ pc = "streaming"
    /\ ~ended
    /\ clientClosedAt = -1
    /\ clientClosedAt' = Len(out)
    /\ UNCHANGED <<pc, endpoint, requestedModel, upstreamCalls, status, headLog, replyBody,
                   out, ended, lateWrites, endedBy, inBody, rejected, streamVars,
                   proxyVars, sideVars, onceResp>>

----------------------------------------------------------------------------
(* The exchange recorder and the reverse-proxy bridge (server.ts) *)

\* LOG_MAX_PREVIEW, set small through the environment
LOG_MAX_PREVIEW == 3

CtxIds == 1..(MaxProxyErrors + 2)

\* the chunks of the upstream response: chunk n carries bytes <<n, 1>>, <<n, 2>>, ...
UpChunk(n, len) == [j \in 1..len |-> <<n, j>>]
ChunkLens == {1, 2}

\* JSON.stringify({ error: "Proxy error", detail }); the leading 0 tells it from
\* the bytes of an upstream chunk
ErrorPayload(detail) == <<0, detail>>
IsErrorPayload(written) == written[1] = 0

InitProxy ==
    /\ pStage = "idle"
    /\ exchanges = 0
    /\ ctxFinalized = [c \in CtxIds |-> FALSE]
    /\ nCtx = 0
    /\ context = 0
    /\ records = <<>>
    /\ fsOps = 0
    /\ reqBodyLen = 0
    /\ upStatus = 0
    /\ pHeadLog = <<>>
    /\ pOut = <<>>
    /\ pEnded = FALSE
    /\ closeSeen = FALSE
    /\ upEnded = FALSE
    /\ abortedSeen = FALSE
    /\ upErrorSeen = FALSE
    /\ sinkErrorSeen = FALSE
    /\ piped = FALSE
    /\ upDestroyed = FALSE
    /\ upSent = 0
    /\ rspFile = FALSE
    /\ responseBodyPath = FALSE
    /\ wroteResponseBytes = FALSE
    /\ fileBytes = <<>>
    /\ fileExists = FALSE
    /\ preview = <<>>
    /\ proxyErrors = 0

\* a faulty variant: the start record is written whether or not RECORD is set
createExchangeContextFsOpsUnguarded(bodyLen) == IF bodyLen > 0 THEN 2 ELSE 1

\* filesystem calls of createExchangeContext: the start record and, for a
\* non-empty body, the request body file
createExchangeContextFsOps(bodyLen) ==
    IF RECORD THEN (IF bodyLen > 0 THEN 2 ELSE 1) ELSE 0

\* the entry writeExchangeLog writes for context c
LogEntry(c, status_, note, bodyFile, preview_) ==
    [ctx |-> c, status |-> status_, note |-> note, body_file |-> bodyFile,
     body_preview |-> preview_]

\* writeExchangeLog(ctx, payload): the records after the call
writeExchangeLog(entry) == IF RECORD THEN Append(records, entry) ELSE records
writeExchangeLogFsOps == IF RECORD THEN 1 ELSE 0

\* a faulty variant: finalize without its guard
finalizeGuardNever(c) == FALSE

\* if (context.finalized) return;
finalizeGuard(c) == ctxFinalized[c]

\* a faulty variant: the context is finalized but its entry stays in the map
finalizeKeepsEntry(note) ==
    IF finalizeGuard(context)
    THEN UNCHANGED <<ctxFinalized, exchanges, records, responseBodyPath, fileExists, fsOps>>
    ELSE LET rm == ~wroteResponseBytes /\ responseBodyPath
         IN /\ responseBodyPath' = (responseBodyPath /\ ~rm)
            /\ fileExists' = (fileExists /\ ~rm)
            /\ ctxFinalized' = [ctxFinalized EXCEPT ![context] = TRUE]
            /\ exchanges' = exchanges
            /\ records' = writeExchangeLog(
                              LogEntry(context, upStatus, note,
                                       wroteResponseBytes /\ responseBodyPath /\ ~rm,
                                       preview))
            /\ fsOps' = fsOps + (IF rm THEN 1 ELSE 0) + writeExchangeLogFsOps

\* finalize(note) of the proxyRes closure, run after closeResponseFile; rm is
\* whether the empty response file is removed
finalize(note) ==
    IF finalizeGuard(context)
    THEN UNCHANGED <<ctxFinalized, exchanges, records, responseBodyPath, fileExists, fsOps>>
    ELSE LET rm == ~wroteResponseBytes /\ responseBodyPath
         IN /\ responseBodyPath' = (responseBodyPath /\ ~rm)
            /\ fileExists' = (fileExists /\ ~rm)
            /\ ctxFinalized' = [ctxFinalized EXCEPT ![context] = TRUE]
            /\ exchanges' = 0
            /\ records' = writeExchangeLog(
                              LogEntry(context, upStatus, note,
                                       wroteResponseBytes /\ responseBodyPath /\ ~rm,
                                       preview))
            /\ fsOps' = fsOps + (IF rm THEN 1 ELSE 0) + writeExchangeLogFsOps

\* handler(request, reply): the context is created and mapped, proxy.web is called
ProxyHandler(bodyLen) ==
    /\ pStage = "idle"
    /\ pStage' = "proxying"
    /\ reqBodyLen' = bodyLen
    /\ nCtx' = nCtx + 1
    /\ exchanges' = nCtx + 1
    /\ fsOps' = fsOps + createExchangeContextFsOps(bodyLen)
    /\ UNCHANGED <<RECORD, ctxFinalized, context, records, upStatus, pHeadLog, pOut, pEnded,
                   closeSeen, upEnded, abortedSeen, upErrorSeen, sinkErrorSeen, piped,
                   upDestroyed, upSent, rspFile, responseBodyPath, wroteResponseBytes,
                   fileBytes, fileExists, preview, proxyErrors, chatVars, sideVars>>

\* a faulty variant: writeHead whether or not headers were sent
writeHeadIfNotSentUnguarded(code) == Append(pHeadLog, code)

\* if (!res.headersSent) res.writeHead(code, ...)
writeHeadIfNotSent(code) == IF pHeadLog = <<>> THEN Append(pHeadLog, code) ELSE pHeadLog

\* ctx && !ctx.finalized
errorFinalizes(c) == c # 0 /\ ~ctxFinalized[c]

\* proxy.on("error", ...)
ProxyError(detail) ==
    /\ pStage \in {"proxying", "piping"}
    /\ proxyErrors < MaxProxyErrors
    /\ proxyErrors' = proxyErrors + 1
    /\ IF errorFinalizes(exchanges)
       THEN /\ ctxFinalized' = [ctxFinalized EXCEPT ![exchanges] = TRUE]
            /\ exchanges' = 0
            /\ records' = writeExchangeLog(LogEntry(exchanges, 502, "proxy error", FALSE,
                                                    ErrorPayload(detail)))
            /\ fsOps' = fsOps + writeExchangeLogFsOps
            /\ UNCHANGED nCtx
       ELSE IF exchanges = 0
       THEN /\ nCtx' = nCtx + 1
            /\ ctxFinalized' = [ctxFinalized EXCEPT ![nCtx + 1] = TRUE]
            /\ records' = writeExchangeLog(LogEntry(nCtx + 1, 502, "proxy error", FALSE,
                                                    ErrorPayload(detail)))
            /\ fsOps' = fsOps + createExchangeContextFsOps(reqBodyLen) + writeExchangeLogFsOps
            /\ UNCHANGED exchanges
       ELSE UNCHANGED <<ctxFinalized, exchanges, records, fsOps, nCtx>>
    /\ pHeadLog' = writeHeadIfNotSent(502)
    /\ pOut' = IF pEnded THEN pOut ELSE Append(pOut, ErrorPayload(detail))
    /\ pEnded' = TRUE
    /\ UNCHANGED <<RECORD, pStage, context, reqBodyLen, upStatus, closeSeen, upEnded,
                   abortedSeen, upErrorSeen, sinkErrorSeen, piped, upDestroyed, upSent,
                   rspFile, responseBodyPath, wroteResponseBytes, fileBytes, fileExists,
                   preview, chatVars, sideVars>>

\* proxy.on("proxyRes", ...): the context is looked up (or created), the headers
\* are written, the response file is opened and proxyRes is piped into clientSink
ProxyRes(code, openFails) ==
    /\ pStage = "proxying"
    /\ pStage' = "piping"
    /\ upStatus' = code
    /\ IF exchanges = 0
       THEN /\ nCtx' = nCtx + 1
            /\ exchanges' = nCtx + 1
            /\ context' = nCtx + 1
       ELSE /\ context' = exchanges
            /\ UNCHANGED <<nCtx, exchanges>>
    /\ pHeadLog' = writeHeadIfNotSent(code)
    /\ rspFile' = (RECORD /\ ~openFails)
    /\ responseBodyPath' = (RECORD /\ ~openFails)
    /\ fileExists' = (RECORD /\ ~openFails)
    /\ fsOps' = fsOps + (IF exchanges = 0 THEN createExchangeContextFsOps(reqBodyLen) ELSE 0)
                      + (IF RECORD THEN 1 ELSE 0)
    /\ piped' = TRUE
    /\ UNCHANGED <<RECORD, ctxFinalized, records, reqBodyLen, pOut, pEnded, closeSeen,
                   upEnded, abortedSeen, upErrorSeen, sinkErrorSeen, upDestroyed, upSent,
                   wroteResponseBytes, fileBytes, preview, proxyErrors, chatVars, sideVars>>

\* proxyRes still delivers to clientSink
Flowing ==
    /\ pStage = "piping"
    /\ piped
    /\ ~upDestroyed
    /\ ~upEnded
    /\ ~abortedSeen
    /\ ~upErrorSeen

\* clientSink.on("data", ...), for the next chunk of proxyRes
SinkData(len, writeFails) ==
    /\ Flowing
    /\ upSent < MaxChunks
    /\ upSent' = upSent + 1
    /\ LET chunk == UpChunk(upSent + 1, len)
           remaining == LOG_MAX_PREVIEW - Len(preview)
       IN /\ pOut' = IF pEnded THEN pOut ELSE pOut \o chunk
          /\ preview' = IF RECORD /\ Len(preview) < LOG_MAX_PREVIEW
                        THEN preview \o SubSeq(chunk, 1, IF remaining < len THEN remaining ELSE len)
                        ELSE preview
          /\ IF RECORD /\ rspFile
             THEN IF writeFails
                  THEN /\ rspFile' = FALSE
                       /\ fileExists' = FALSE
                       /\ responseBodyPath' = FALSE
                       /\ wroteResponseBytes' = FALSE
                       /\ fsOps' = fsOps + 2
                       /\ UNCHANGED fileBytes
                  ELSE /\ fileBytes' = fileBytes \o chunk
                       /\ wroteResponseBytes' = TRUE
                       /\ fsOps' = fsOps + 1
                       /\ UNCHANGED <<rspFile, fileExists, responseBodyPath>>
             ELSE UNCHANGED <<rspFile, fileExists, responseBodyPath, wroteResponseBytes,
                              fileBytes, fsOps>>
    /\ UNCHANGED <<RECORD, pStage, exchanges, ctxFinalized, nCtx, context, records, reqBodyLen,
                   upStatus, pHeadLog, pEnded, closeSeen, upEnded, abortedSeen, upErrorSeen,
                   sinkErrorSeen, piped, upDestroyed, proxyErrors, chatVars, sideVars>>

\* proxyRes ends, the pipe ends clientSink: clientSink.on("end", ...)
SinkEnd ==
    /\ Flowing
    /\ upEnded' = TRUE
    /\ pEnded' = TRUE
    /\ rspFile' = FALSE
    /\ finalize(U)
    /\ UNCHANGED <<RECORD, pStage, nCtx, context, reqBodyLen, upStatus, pHeadLog, pOut,
                   closeSeen, abortedSeen, upErrorSeen, sinkErrorSeen, piped, upDestroyed,
                   upSent, wroteResponseBytes, fileBytes, preview, proxyErrors, chatVars, sideVars>>

\* clientSink.on("error", ...)
SinkError ==
    /\ pStage = "piping"
    /\ ~sinkErrorSeen
    /\ sinkErrorSeen' = TRUE
    /\ pEnded' = TRUE
    /\ rspFile' = FALSE
    /\ finalize("clientSink error")
    /\ UNCHANGED <<RECORD, pStage, nCtx, context, reqBodyLen, upStatus, pHeadLog, pOut,
                   closeSeen, upEnded, abortedSeen, upErrorSeen, piped, upDestroyed,
                   upSent, wroteResponseBytes, fileBytes, preview, proxyErrors, chatVars, sideVars>>

\* a faulty variant: the upstream response is left piped and alive
ClientCloseStillPiped ==
    /\ pStage = "piping"
    /\ ~closeSeen
    /\ closeSeen' = TRUE
    /\ rspFile' = FALSE
    /\ finalize("client connection closed")
    /\ UNCHANGED <<RECORD, pStage, nCtx, context, reqBodyLen, upStatus, pHeadLog, pOut,
                   pEnded, upEnded, abortedSeen, upErrorSeen, sinkErrorSeen, upSent,
                   wroteResponseBytes, fileBytes, preview, proxyErrors, piped,
                   upDestroyed, chatVars, sideVars>>

\* res.on("close", ...)
ClientClose ==
    /\ pStage = "piping"
    /\ ~closeSeen
    /\ closeSeen' = TRUE
    /\ rspFile' = FALSE
    /\ piped' = FALSE
    /\ upDestroyed' = TRUE
    /\ finalize("client connection closed")
    /\ UNCHANGED <<RECORD, pStage, nCtx, context, reqBodyLen, upStatus, pHeadLog, pOut,
                   pEnded, upEnded, abortedSeen, upErrorSeen, sinkErrorSeen, upSent,
                   wroteResponseBytes, fileBytes, preview, proxyErrors, chatVars, sideVars>>

\* proxyRes.on("aborted", ...)
UpstreamAborted ==
    /\ pStage = "piping"
    /\ ~upEnded
    /\ ~abortedSeen
    /\ abortedSeen' = TRUE
    /\ rspFile' = FALSE
    /\ finalize("upstream aborted")
    /\ UNCHANGED <<RECORD, pStage, nCtx, context, reqBodyLen, upStatus, pHeadLog, pOut,
                   pEnded, closeSeen, upEnded, upErrorSeen, sinkErrorSeen, piped,
                   upDestroyed, upSent, wroteResponseBytes, fileBytes, preview,
                   proxyErrors, chatVars, sideVars>>

\* proxyRes.on("error", ...)
UpstreamError ==
    /\ pStage = "piping"
    /\ ~upEnded
    /\ ~upErrorSeen
    /\ upErrorSeen' = TRUE
    /\ rspFile' = FALSE
    /\ finalize("proxyRes error")
    /\ UNCHANGED <<RECORD, pStage, nCtx, context, reqBodyLen, upStatus, pHeadLog, pOut,
                   pEnded, closeSeen, upEnded, abortedSeen, sinkErrorSeen, piped,
                   upDestroyed, upSent, wroteResponseBytes, fileBytes, preview,
                   proxyErrors, chatVars, sideVars>>

\* ---- two exchanges of the streaming branch, each with the variables its
\* handler invocation declares (streamBuffer, requestId, created, roleSent)

Exchanges == {1, 2}

\* the lines the upstreams of the two exchanges send
ConcurrentKinds == {"content", "content2", "finish"}

\* the state of an exchange after the 200 headers
FreshStream ==
    [streamBuffer |-> <<>>, roleSent |-> FALSE, requestId |-> LocalRequestId,
     created |-> LocalCreated, out |-> <<>>, ended |-> FALSE, upPending |-> <<>>,
     upLines |-> <<>>, endSeen |-> FALSE, errorSeen |-> FALSE]

InitConcurrent == streams = [e \in Exchanges |-> FreshStream]

\* a faulty variant: one role flag is shared, that of the first exchange
closureOfSharedRoleFlag(e) == [streams[e] EXCEPT !.roleSent = streams[1].roleSent]

\* the variables the 'data' handler of exchange e closes over
closureOf(e) == streams[e]

\* zhipuStreamResponse.data.on('data', ...) of exchange e
StreamData(e, c) ==
    /\ LET x == closureOf(e)
           split == SplitLines(x.streamBuffer \o Decode(c.chunk), <<>>, <<>>)
           st == processLines([roleSent |-> x.roleSent, requestId |-> x.requestId,
                               created |-> x.created, frames |-> <<>>], split.lines)
       IN streams' = [streams EXCEPT
                         ![e].streamBuffer = split.rest,
                         ![e].roleSent = st.roleSent,
                         ![e].requestId = st.requestId,
                         ![e].created = st.created,
                         ![e].out = IF x.ended THEN @ ELSE @ \o st.frames,
                         ![e].upPending = c.rest,
                         ![e].upLines = @ \o c.kinds]
    /\ UNCHANGED <<chatVars, proxyVars, interceptVars, pureVars>>

\* zhipuStreamResponse.data.on('end', ...) of exchange e
StreamEnd(e) ==
    /\ ~streams[e].endSeen
    /\ ~streams[e].errorSeen
    /\ streams' = [streams EXCEPT
                      ![e].endSeen = TRUE,
                      ![e].out = IF streams[e].ended THEN @ ELSE Append(@, DoneFrame),
                      ![e].ended = TRUE]
    /\ UNCHANGED <<chatVars, proxyVars, interceptVars, pureVars>>

\* zhipuStreamResponse.data.on('error', ...) of exchange e
StreamError(e) ==
    /\ ~streams[e].endSeen
    /\ ~streams[e].errorSeen
    /\ streams' = [streams EXCEPT ![e].errorSeen = TRUE, ![e].ended = TRUE]
    /\ UNCHANGED <<chatVars, proxyVars, interceptVars, pureVars>>

\* the response file stream fails (its open, or the write of a chunk, is
\* refused by the filesystem): fs.WriteStream reports it by emitting 'error'.
\* No listener is registered on rspFile, so the event is thrown as an uncaught
\* exception and the process terminates; the try/catch around rspFile.write only
\* sees synchronous throws
ResponseFileError ==
    /\ pStage = "piping"
    /\ RECORD
    /\ rspFile
    /\ pStage' = "crashed"
    /\ UNCHANGED <<RECORD, exchanges, ctxFinalized, nCtx, context, records, fsOps, reqBodyLen,
                   upStatus, pHeadLog, pOut, pEnded, closeSeen, upEnded, abortedSeen,
                   upErrorSeen, sinkErrorSeen, piped, upDestroyed, upSent, rspFile,
                   responseBodyPath, wroteResponseBytes, fileBytes, fileExists, preview,
                   proxyErrors, chatVars, sideVars>>

----------------------------------------------------------------------------
(* Pure helpers *)

\* the characters of the strings handed to the helpers
Chars == {"g", ":", "t"}

\* a faulty variant: the string is cut at its last ':'
RECURSIVE LastColonFrom(_, _)
LastColonFrom(s, i) ==
    IF i < 1 THEN 0
    ELSE IF s[i] = ":" THEN i
    ELSE LastColonFrom(s, i - 1)
normalizeModelNameLastColon(m) ==
    IF m.ty # "string" \/ Len(m.v) = 0 THEN m
    ELSE LET c == LastColonFrom(m.v, Len(m.v))
         IN IF c = 0 THEN m ELSE MStr(SubSeq(m.v, 1, c - 1))

\* normalizeModelName applied to any JavaScript value: `if (!model) return model`
\* hands null, undefined and '' back
normalizeModelNameOf(m) ==
    IF m.ty # "string" THEN m ELSE MStr(normalizeModelName(m.v))

\* the loop of chunkText from offset i on
RECURSIVE chunkTextFrom(_, _, _, _)
chunkTextFrom(s, size, i, out_) ==
    IF i >= Len(s) THEN out_
    ELSE chunkTextFrom(s, size, i + size,
                       Append(out_, SubSeq(s, i + 1, IF i + size < Len(s) THEN i + size ELSE Len(s))))

\* a faulty variant: the empty list is returned for the empty string
chunkTextNoFallback(s, size) == chunkTextFrom(s, size, 0, <<>>)

\* chunkText(s, size)
chunkText(s, size) ==
    LET out_ == chunkTextFrom(s, size, 0, <<>>)
    IN IF Len(out_) # 0 THEN out_ ELSE << <<>> >>

\* the default size of chunkText
DefaultChunkSize == 1024

\* the bytes of a body: a body made of digits only is a JSON text (a number),
\* any other is not
BodyChars == {"1", "x"}
JsonParsesText(text) == text # <<>> /\ \A i \in 1..Len(text) : text[i] = "1"

\* the content types of a body: absent, JSON, a text type, anything else
ContentTypes == {U, "application/json", "text/plain", "application/octet-stream"}

\* a preview, with the bytes of the body it was derived from
Preview(kind, from) == [kind |-> kind, from |-> from]
NoPreview == Preview("null", <<>>)
FirstBytes(buf, n) == SubSeq(buf, 1, IF Len(buf) < n THEN Len(buf) ELSE n)

\* previewDecode(contentType, buf)
previewDecode(contentType, buf) ==
    IF buf.ty # "string" \/ Len(buf.v) = 0 THEN NoPreview
    ELSE IF contentType = U THEN Preview("text", FirstBytes(buf.v, LOG_MAX_PREVIEW))
    ELSE IF contentType = "application/json"
        THEN IF JsonParsesText(buf.v) THEN Preview("json", buf.v)
             ELSE Preview("text", FirstBytes(buf.v, LOG_MAX_PREVIEW))
    ELSE IF contentType = "text/plain" THEN Preview("text", FirstBytes(buf.v, LOG_MAX_PREVIEW))
    ELSE Preview("base64", FirstBytes(buf.v, LOG_MAX_PREVIEW))

\* request.body_preview of writeExchangeLog: previewDecode of the whole captured
\* request body
requestBodyPreview(requestContentType, reqBodyBuf) ==
    previewDecode(requestContentType, reqBodyBuf)

InitPure ==
    /\ fnName = "none"
    /\ fnArg = MUndef
    /\ fnSize = 1
    /\ fnType = U
    /\ fnResult = <<>>

\* the inputs of the helpers: every string of up to MaxLen characters, null and
\* undefined for normalizeModelName, every size up to MaxSize for chunkText
InitPureInputs ==
    /\ fnResult = <<>>
    /\ \/ /\ fnName = "normalizeModelName"
          /\ fnArg \in {MStr(s) : s \in SeqsUpTo(Chars, MaxLen)} \cup {MNull, MUndef}
          /\ fnSize = 1
          /\ fnType = U
       \/ /\ fnName = "chunkText"
          /\ fnArg \in {MStr(s) : s \in SeqsUpTo(Chars, MaxLen)}
          /\ fnSize \in 1..MaxSize
          /\ fnType = U
       \/ /\ fnName = "previewDecode"
          /\ fnArg \in {MStr(s) : s \in SeqsUpTo(BodyChars, MaxLen)} \cup {MUndef}
          /\ fnSize = 1
          /\ fnType \in ContentTypes

\* the request-body preview of a consolidated record is computed from the
\* captured request body
ApplyPreviewDecode ==
    /\ fnName = "previewDecode"
    /\ fnResult = <<>>
    /\ fnResult' = <<requestBodyPreview(fnType, fnArg)>>
    /\ UNCHANGED <<fnName, fnArg, fnSize, fnType, chatVars, proxyVars, interceptVars,
                   concurrentVars>>

\* normalizeModelName is applied to the input, then to its own result
ApplyNormalizeModelName ==
    /\ fnName = "normalizeModelName"
    /\ Len(fnResult) < 2
    /\ fnResult' = Append(fnResult,
                          normalizeModelNameOf(IF fnResult = <<>> THEN fnArg ELSE fnResult[1]))
    /\ UNCHANGED <<fnName, fnArg, fnSize, fnType, chatVars, proxyVars, interceptVars,
                   concurrentVars>>

\* chunkText is applied to the input
ApplyChunkText ==
    /\ fnName = "chunkText"
    /\ fnResult = <<>>
    /\ fnResult' = <<chunkText(fnArg.v, fnSize)>>
    /\ UNCHANGED <<fnName, fnArg, fnSize, fnType, chatVars, proxyVars, interceptVars,
                   concurrentVars>>

----------------------------------------------------------------------------
(* The intercepted POST /v1/chat/completions route (server.ts) *)

InitIntercept ==
    /\ configInitialized = FALSE
    /\ configInitError = N
    /\ initCalls = 0
    /\ intercepted = <<>>

\* the error of initializeConfig when no API key is found
ApiKeyNotFound == "API key not found"

\* a faulty variant: the cached error is not looked at
configErrorCachedNever == FALSE

\* if (configInitError) throw configInitError;
configErrorCached == configInitError # N

\* ensureZhipuConfig(): the flags and the call count after the call, and the
\* message of the error it throws (N: it returns); keyFound is whether
\* initializeConfig finds an API key in the environment
ensureZhipuConfig(keyFound) ==
    IF configInitialized
    THEN [initialized |-> TRUE, error |-> configInitError, calls |-> initCalls, thrown |-> N]
    ELSE IF configErrorCached
    THEN [initialized |-> FALSE, error |-> configInitError, calls |-> initCalls,
          thrown |-> configInitError]
    ELSE IF keyFound
    THEN [initialized |-> TRUE, error |-> configInitError, calls |-> initCalls + 1,
          thrown |-> N]
    ELSE [initialized |-> FALSE, error |-> ApiKeyNotFound, calls |-> initCalls + 1,
          thrown |-> ApiKeyNotFound]

\* the detail of an error reply: a text and the message index it names (-1: none)
IDetail(text, idx) == <<text, idx>>
NoDetail == IDetail(U, -1)

\* the raw bodies the route receives
RawShapes == {"empty", "badJson", "notObject", "object"}

SupportedRoles == {"system", "user", "assistant"}

\* the loop over messageCandidates from element i (1-based) on: the detail of
\* the first rejected element, NoDetail when every element is accepted
RECURSIVE InterceptMessagesError(_, _)
InterceptMessagesError(elems, i) ==
    IF i > Len(elems) THEN NoDetail
    ELSE IF ~HasStringRole(elems[i]) THEN IDetail("Message missing role", i - 1)
    ELSE IF elems[i].role \notin SupportedRoles THEN IDetail("Unsupported role", i - 1)
    ELSE InterceptMessagesError(elems, i + 1)

\* the validation of the route, in the order of the code: the error reply of
\* the first failing check, or a reply with status 0 when the body passes
InterceptReply(status_, error, detail) ==
    [status |-> status_, error |-> error, detail |-> detail, model |-> <<>>,
     choices |-> <<>>, events |-> <<>>]
InterceptValidation(shape, body) ==
    IF shape = "empty"
        THEN InterceptReply(400, "Invalid request body", IDetail("Expected JSON body", -1))
    ELSE IF shape = "badJson"
        THEN InterceptReply(400, "Invalid JSON", IDetail("Unexpected token", -1))
    ELSE IF shape = "notObject"
        THEN InterceptReply(400, "Invalid request body", IDetail("Expected JSON object", -1))
    ELSE IF body.model.ty # "string" \/ Len(body.model.v) = 0
        THEN InterceptReply(400, "Missing model", NoDetail)
    ELSE IF ~body.messages.isArray
        THEN InterceptReply(400, "Invalid messages", IDetail("messages must be an array", -1))
    ELSE IF InterceptMessagesError(body.messages.elems, 1) # NoDetail
        THEN InterceptReply(400, "Invalid messages", InterceptMessagesError(body.messages.elems, 1))
    ELSE InterceptReply(0, U, NoDetail)

\* toPlainText(content) of a string or absent content
toPlainText(content) == IF content = U THEN "" ELSE content

\* the request handed to zhipuChatOnce
InterceptZhipuReq(body) ==
    [model |-> targetModel(body.model.v),
     messages |-> [i \in 1..Len(body.messages.elems) |->
                      [role |-> body.messages.elems[i].role,
                       content |-> toPlainText(body.messages.elems[i].content)]],
     stream |-> FALSE,
     rest |-> body.rest]
NoUpstreamReq == [model |-> <<>>, messages |-> <<>>, stream |-> FALSE, rest |-> U]

\* the bodies the route receives: one message of every kind, or two valid ones
InterceptBodies ==
    {Body(m, msgs, s, U) :
        m \in {MUndef, MStr(ModelOther)},
        msgs \in {NotAnArray, ArrayOf(<<MsgObj("string", "user")>>),
                  ArrayOf(<<MsgObj("string", "user"), MsgNull>>),
                  ArrayOf(<<MsgObj("string", "tool")>>)},
        s \in BOOLEAN}

\* filesystem calls of respondWithError and of the two success paths:
\* writeFileSync(ctx.rspPath, ...) and, through finalize, writeExchangeLog
respondFsOps == (IF RECORD THEN 1 ELSE 0) + writeExchangeLogFsOps

\* one intercepted exchange
Exchange(stage, reply_, valid, stream, model, upstream, finalized, logged) ==
    [stage |-> stage, reply |-> reply_, valid |-> valid, stream |-> stream,
     model |-> model, upstream |-> upstream, finalized |-> finalized, logged |-> logged]

\* the route handler up to its await: the context is created, the body is
\* validated, the configuration is ensured and the upstream call is issued
Intercept(shape, body, keyFound) ==
    /\ Len(intercepted) < MaxRequests
    /\ LET v == InterceptValidation(shape, body)
           cfg == ensureZhipuConfig(keyFound)
           bodyLen == IF shape = "empty" THEN 0 ELSE 1
           logs == IF RECORD THEN 1 ELSE 0
       IN IF v.status # 0
          THEN /\ intercepted' = Append(intercepted,
                     Exchange("done", v, FALSE, FALSE, <<>>, NoUpstreamReq, TRUE, logs))
               /\ fsOps' = fsOps + createExchangeContextFsOps(bodyLen) + respondFsOps
               /\ UNCHANGED <<configInitialized, configInitError, initCalls>>
          ELSE /\ configInitialized' = cfg.initialized
               /\ configInitError' = cfg.error
               /\ initCalls' = cfg.calls
               /\ IF cfg.thrown # N
                  THEN /\ intercepted' = Append(intercepted,
                             Exchange("done",
                                      InterceptReply(500, "Configuration error",
                                                     IDetail(cfg.thrown, -1)),
                                      TRUE, body.stream, body.model.v, NoUpstreamReq, TRUE, logs))
                       /\ fsOps' = fsOps + createExchangeContextFsOps(bodyLen) + respondFsOps
                  ELSE /\ intercepted' = Append(intercepted,
                             Exchange("awaitOnce", InterceptReply(0, U, NoDetail), TRUE,
                                      body.stream, body.model.v, InterceptZhipuReq(body),
                                      FALSE, 0))
                       /\ fsOps' = fsOps + createExchangeContextFsOps(bodyLen)
    /\ UNCHANGED <<RECORD, pStage, exchanges, ctxFinalized, nCtx, context, records,
                   reqBodyLen, upStatus, pHeadLog, pOut, pEnded, closeSeen, upEnded,
                   abortedSeen, upErrorSeen, sinkErrorSeen, piped, upDestroyed, upSent,
                   rspFile, responseBodyPath, wroteResponseBytes, fileBytes, fileExists,
                   preview, proxyErrors, chatVars, pureVars, concurrentVars>>

\* the buffered upstream responses: the content and finish_reason of each choice
\* and whether the element of the choices array is an object at all
IChoice(content, finish_reason) ==
    [isNull |-> FALSE, content |-> content, finish_reason |-> finish_reason]
NullIChoice == [isNull |-> TRUE, content |-> <<>>, finish_reason |-> N]
InterceptResponses ==
    {<<>>, <<IChoice(<<"g", "t">>, "stop")>>, <<IChoice(<<>>, N), IChoice(<<"t">>, "length")>>,
     <<NullIChoice>>}

\* choices.map(...) reads choice.index and choice.finish_reason of every element
\* without a guard: a null element makes it throw a TypeError
ChoicesMapThrows(upstreamChoices) ==
    \E k \in 1..Len(upstreamChoices) : upstreamChoices[k].isNull

\* the reply of the framework's default error handler to an exception that
\* escapes the route handler
UncaughtReply ==
    InterceptReply(500, "Internal Server Error",
                   IDetail("Cannot read properties of null", -1))

RECURSIVE JoinContents(_)
JoinContents(choices) ==
    IF choices = <<>> THEN <<>> ELSE Head(choices).content \o JoinContents(Tail(choices))

\* choices.find((c) => c.finish_reason)?.finish_reason || "stop"
RECURSIVE FirstFinishReason(_)
FirstFinishReason(choices) ==
    IF choices = <<>> THEN "stop"
    ELSE IF Truthy(Head(choices).finish_reason) THEN Head(choices).finish_reason
    ELSE FirstFinishReason(Tail(choices))

\* eventChunks: the role event, one event per non-empty piece, the finish event
\* and the [DONE] event
InterceptEvents(choices) ==
    LET pieces == chunkText(JoinContents(choices), DefaultChunkSize)
    IN <<[kind |-> "role", text |-> <<>>, finish_reason |-> N]>>
       \o [k \in 1..Len(SelectSeq(pieces, LAMBDA x : x # <<>>)) |->
              [kind |-> "content", text |-> SelectSeq(pieces, LAMBDA x : x # <<>>)[k],
               finish_reason |-> N]]
       \o <<[kind |-> "finish", text |-> <<>>, finish_reason |-> FirstFinishReason(choices)],
            [kind |-> "DONE", text |-> <<>>, finish_reason |-> N]>>

\* the completion sent for a buffered upstream response
InterceptCompletion(exchange, upstreamChoices) ==
    LET choices == IF upstreamChoices = <<>> THEN <<IChoice(<<>>, "stop")>> ELSE upstreamChoices
    IN [InterceptReply(200, U, NoDetail) EXCEPT
           !.model = exchange.model,
           !.choices = choices,
           !.events = IF exchange.stream THEN InterceptEvents(choices) ELSE <<>>]

\* await zhipuChatOnce(zhipuReq) resolves for exchange i: the completion is
\* sent, as JSON or converted to SSE, and the exchange is finalized; when the
\* mapping of the choices throws, the handler is left before any of that
InterceptResolved(i, upstreamChoices) ==
    /\ i \in 1..Len(intercepted)
    /\ intercepted[i].stage = "awaitOnce"
    /\ IF ChoicesMapThrows(upstreamChoices)
       THEN /\ intercepted' = [intercepted EXCEPT
                                  ![i].stage = "done",
                                  ![i].reply = UncaughtReply]
            /\ fsOps' = fsOps
       ELSE /\ intercepted' = [intercepted EXCEPT
                                  ![i].stage = "done",
                                  ![i].reply = InterceptCompletion(intercepted[i],
                                                                   upstreamChoices),
                                  ![i].finalized = TRUE,
                                  ![i].logged = IF RECORD THEN 1 ELSE 0]
            /\ fsOps' = fsOps + respondFsOps
    /\ UNCHANGED <<RECORD, pStage, exchanges, ctxFinalized, nCtx, context, records,
                   reqBodyLen, upStatus, pHeadLog, pOut, pEnded, closeSeen, upEnded,
                   abortedSeen, upErrorSeen, sinkErrorSeen, piped, upDestroyed, upSent,
                   rspFile, responseBodyPath, wroteResponseBytes, fileBytes, fileExists,
                   preview, proxyErrors, chatVars, pureVars, concurrentVars,
                   configInitialized, configInitError, initCalls>>

\* await zhipuChatOnce(zhipuReq) rejects for exchange i
InterceptRejected(i, detail) ==
    /\ i \in 1..Len(intercepted)
    /\ intercepted[i].stage = "awaitOnce"
    /\ intercepted' = [intercepted EXCEPT
                          ![i].stage = "done",
                          ![i].reply = InterceptReply(502, "Upstream error", IDetail(detail, -1)),
                          ![i].finalized = TRUE,
                          ![i].logged = IF RECORD THEN 1 ELSE 0]
    /\ fsOps' = fsOps + respondFsOps
    /\ UNCHANGED <<RECORD, pStage, exchanges, ctxFinalized, nCtx, context, records,
                   reqBodyLen, upStatus, pHeadLog, pOut, pEnded, closeSeen, upEnded,
                   abortedSeen, upErrorSeen, sinkErrorSeen, piped, upDestroyed, upSent,
                   rspFile, responseBodyPath, wroteResponseBytes, fileBytes, fileExists,
                   preview, proxyErrors, chatVars, pureVars, concurrentVars,
                   configInitialized, configInitError, initCalls>>

----------------------------------------------------------------------------
(* Specifications *)

Init == InitChat /\ InitConcurrent /\ InitProxy /\ InitIntercept /\ InitPure /\ RECORD = TRUE

\* one chat exchange, its upstream stream delivered in every chunking
Next ==
    \/ \E body \in StreamBodies, ep \in Endpoints : Receive(body, ep)
    \/ StreamResolved
    \/ \E detail \in ErrorDetails : StreamRejected(detail)
    \/ \E zhipuResp \in PendingOnceResponses : OnceResolved(zhipuResp)
    \/ \E detail \in ErrorDetails : OnceRejected(detail)
    \/ \E c \in NextChunks : OnData(c)
    \/ OnEnd
    \/ OnError

Spec == Init /\ [][Next]_vars

\* one streamed chat exchange whose client may close its connection at any point
NextDisconnect ==
    \/ \E body \in StreamBodies, ep \in Endpoints : Receive(body, ep)
    \/ StreamResolved
    \/ \E detail \in ErrorDetails : StreamRejected(detail)
    \/ \E zhipuResp \in PendingOnceResponses : OnceResolved(zhipuResp)
    \/ \E detail \in ErrorDetails : OnceRejected(detail)
    \/ \E c \in NextChunks : OnData(c)
    \/ OnEnd
    \/ OnError
    \/ ClientDisconnect

SpecDisconnect == Init /\ [][NextDisconnect]_vars

\* one chat exchange up to the upstream call and its buffered reply, for every
\* inbound body
NextRequest ==
    \/ \E body \in AllBodies, ep \in Endpoints : Receive(body, ep)
    \/ StreamResolved
    \/ \E detail \in ErrorDetails : StreamRejected(detail)
    \/ \E zhipuResp \in PendingOnceResponses : OnceResolved(zhipuResp)
    \/ \E detail \in ErrorDetails : OnceRejected(detail)

SpecRequest == Init /\ [][NextRequest]_vars

\* one proxied request
NextProxy ==
    \/ \E bodyLen \in 0..1 : ProxyHandler(bodyLen)
    \/ \E detail \in ErrorDetails : ProxyError(detail)
    \/ \E code \in {200, 404}, openFails \in BOOLEAN : ProxyRes(code, openFails)
    \/ \E len \in ChunkLens, writeFails \in BOOLEAN : SinkData(len, writeFails)
    \/ SinkEnd
    \/ SinkError
    \/ ClientClose
    \/ UpstreamAborted
    \/ UpstreamError

\* recording is enabled or disabled for the life of the process
InitAnyRecord == InitChat /\ InitConcurrent /\ InitProxy /\ InitIntercept /\ InitPure /\ RECORD \in BOOLEAN

SpecProxy == InitAnyRecord /\ [][NextProxy]_vars

\* two streamed exchanges whose upstream events interleave in every order
NextConcurrent ==
    \/ \E e \in Exchanges :
          \E c \in ChunksOf(streams[e].upPending, Len(streams[e].upLines), ConcurrentKinds) :
              /\ ~streams[e].endSeen
              /\ ~streams[e].errorSeen
              /\ StreamData(e, c)
    \/ \E e \in Exchanges : StreamEnd(e)
    \/ \E e \in Exchanges : StreamError(e)

SpecConcurrent == Init /\ [][NextConcurrent]_vars

\* one proxied request whose response file may fail
NextRecorderFailure ==
    \/ \E bodyLen \in 0..1 : ProxyHandler(bodyLen)
    \/ \E detail \in ErrorDetails : ProxyError(detail)
    \/ \E code \in {200, 404}, openFails \in BOOLEAN : ProxyRes(code, openFails)
    \/ \E len \in ChunkLens, writeFails \in BOOLEAN : SinkData(len, writeFails)
    \/ SinkEnd
    \/ SinkError
    \/ ClientClose
    \/ UpstreamAborted
    \/ UpstreamError
    \/ ResponseFileError

SpecRecorderFailure == InitAnyRecord /\ [][NextRecorderFailure]_vars

\* a sequence of intercepted requests, their upstream calls completing in any order
NextIntercept ==
    \/ \E shape \in RawShapes, body \in InterceptBodies, keyFound \in BOOLEAN :
           Intercept(shape, body, keyFound)
    \/ \E i \in 1..MaxRequests, upstreamChoices \in InterceptResponses :
           InterceptResolved(i, upstreamChoices)
    \/ \E i \in 1..MaxRequests, detail \in ErrorDetails : InterceptRejected(i, detail)

SpecIntercept == InitAnyRecord /\ [][NextIntercept]_vars

\* the pure helpers, applied to every input up to the bounds
InitHelpers == InitChat /\ InitConcurrent /\ InitProxy /\ InitIntercept /\ InitPureInputs /\ RECORD = TRUE

NextPure ==
    \/ ApplyNormalizeModelName
    \/ ApplyChunkText
    \/ ApplyPreviewDecode

SpecPure == InitHelpers /\ [][NextPure]_vars

----------------------------------------------------------------------------
(* Properties *)

FramesOfKind(kind) == {j \in 1..Len(out) : out[j].kind = kind}
NumFrames(kind) == Cardinality(FramesOfKind(kind))
PayloadFrameKinds == {"content", "toolHeader", "toolArgs", "finish"}

\* C1, as stated: once a streamed exchange has been closed, whatever closed it,
\* the frames written end with the [DONE] sentinel and hold exactly one of it.
C1_AlwaysEndsWithDone ==
    (pc = "streaming" /\ ended) =>
        /\ Len(out) >= 1
        /\ out[Len(out)] = DoneFrame
        /\ NumFrames("DONE") = 1

\* C1, amended: the sentinel is written only by the 'end' handler. When 'end' is
\* what closes the response, the frames end with exactly one [DONE]; when the
\* upstream 'error' closes it first, or while it is still open, no [DONE] has
\* been written. An upstream [DONE] line is never forwarded, so a [DONE] frame
\* is never followed by another frame and is never written twice.
C1_DoneOnlyOnEnd ==
    pc = "streaming" =>
        /\ NumFrames("DONE") <= 1
        /\ \A j \in FramesOfKind("DONE") : j = Len(out)
        /\ (ended /\ endedBy = "end") => (Len(out) >= 1 /\ out[Len(out)] = DoneFrame)
        /\ (~ended \/ endedBy = "error") => NumFrames("DONE") = 0

\* the upstream sent its own [DONE] after a content frame, then ended
C1_Witness ==
    /\ pc = "streaming"
    /\ upLines = <<"content", "DONE">>
    /\ upPending = <<>>
    /\ endedBy = "end"
    /\ Len(out) = 3

\* C2: every argument-fragment frame for client index i comes after a header
\* frame for index i written earlier in the same exchange.
C2_HeaderBeforeArguments ==
    \A j \in FramesOfKind("toolArgs") :
        \E h \in FramesOfKind("toolHeader") :
            h < j /\ out[h].tcIndex = out[j].tcIndex

\* two tool calls of one upstream frame were forwarded
C2_Witness ==
    /\ \E j \in FramesOfKind("toolArgs") : out[j].tcIndex = 1
    /\ \E j \in FramesOfKind("toolArgs") : out[j].tcIndex = 0

\* C3: the role announcement is written at most once, and every content,
\* tool-call or finish frame has exactly one role announcement before it.
C3_RoleOnceAndFirst ==
    /\ NumFrames("role") <= 1
    /\ \A j \in 1..Len(out) :
           out[j].kind \in PayloadFrameKinds =>
               Cardinality({r \in FramesOfKind("role") : r < j}) = 1

\* two upstream frames were transcoded: a content frame, then a finish frame
C3_Witness ==
    /\ upLines = <<"content", "finishUsage">>
    /\ Len(out) = 3
    /\ out[2].kind = "content"
    /\ out[3].kind = "finish"

\* C4, as stated: the finish frame is written at most once, and no content,
\* tool-call or finish frame is written after it.
C4_NothingAfterFinish ==
    /\ NumFrames("finish") <= 1
    /\ \A j \in FramesOfKind("finish") :
           \A k \in (j + 1)..Len(out) : out[k].kind \notin PayloadFrameKinds

\* C5: a context's consolidated record is written at most once, by the step
\* that sets its finalized flag; the flag never returns to false, and no step
\* taken once it is set writes a record for that context.
RecordsOf(recs, c) == Len(SelectSeq(recs, LAMBDA e : e.ctx = c))

C5_FinalizedOnce ==
    /\ [](\A c \in CtxIds : RecordsOf(records, c) <= 1)
    /\ [][\A c \in CtxIds :
            /\ ctxFinalized[c] => ctxFinalized'[c]
            /\ ctxFinalized[c] => RecordsOf(records', c) = RecordsOf(records, c)
            /\ RecordsOf(records', c) # RecordsOf(records, c) =>
                   (~ctxFinalized[c] /\ ctxFinalized'[c])]_vars

\* the context was finalized by the normal end, and the client-socket close and
\* a clientSink error arrived afterwards
C5_Witness ==
    /\ RECORD
    /\ context # 0
    /\ ctxFinalized[context]
    /\ upEnded
    /\ closeSeen
    /\ sinkErrorSeen
    /\ RecordsOf(records, context) = 1
    /\ records[1].note = U

\* C6, as stated: one proxied request has one ExchangeContext and one
\* consolidated record, whatever events arrive and in whatever order.
C6_OneContextOneRecord ==
    /\ nCtx <= 1
    /\ Len(records) <= 1

\* C7: the model of the non-streaming reply and of every frame of a streamed
\* reply is the model string the client sent.
C7_ModelEchoed ==
    /\ (status = 200 /\ endedBy = "send") => replyBody.model = inBody.model.v
    /\ \A j \in 1..Len(out) : out[j].kind # "DONE" => out[j].model = inBody.model.v

\* frames were streamed for a model name that was mapped to the default model
C7_Witness ==
    /\ pc = "streaming"
    /\ Len(upstreamCalls) = 1
    /\ requestedModel = ModelOther
    /\ upstreamCalls[1].model = DEFAULT_ZHIPU_MODEL
    /\ NumFrames("content") >= 1
    /\ NumFrames("finish") >= 1

\* C8: a body whose model is missing, null or empty, whose messages is not an
\* array, or one of whose messages is null, a bare string or without a string
\* role, is answered 400 with the message of the first failing check, and no
\* upstream call is made.
ModelMissing(body) == body.model.ty # "string" \/ body.model.v = <<>>
BadElement(body) ==
    \E i \in 1..Len(body.messages.elems) :
        \/ body.messages.elems[i].ty \in {"null", "string"}
        \/ body.messages.elems[i].roleTy # "string"
Rejected400(message) ==
    /\ status = 400
    /\ replyBody = ErrorReply(message, U)
    /\ upstreamCalls = <<>>
    /\ pc = "done"

C8_InvalidBodyRejected ==
    (pc # "idle" /\ inBody.json) =>
        /\ ModelMissing(inBody) => Rejected400("Missing \"model\" in request body")
        /\ (~ModelMissing(inBody) /\ ~inBody.messages.isArray) =>
               Rejected400("\"messages\" must be an array")
        /\ (~ModelMissing(inBody) /\ inBody.messages.isArray /\ BadElement(inBody)) =>
               Rejected400("Each message must include a string \"role\"")

\* a valid first message followed by a null element was rejected
C8_Witness ==
    /\ pc = "done"
    /\ inBody.json
    /\ ~ModelMissing(inBody)
    /\ inBody.messages.elems = <<MsgObj("string", "user"), MsgNull>>
    /\ status = 400

\* C9: when the upstream call rejects, the client gets 502 with the error and
\* its message, and neither 200 headers nor an SSE frame are written.
C9_UpstreamFailureIs502 ==
    rejected # "" =>
        /\ status = 502
        /\ replyBody = ErrorReply("Upstream API error", rejected)
        /\ headLog = <<502>>
        /\ out = <<>>
        /\ pc = "done"

\* the streaming call failed to be established
C9_Witness ==
    /\ rejected = "connect ECONNREFUSED"
    /\ upstreamCalls[1].stream
    /\ status = 502

ProcessedLines ==
    IF upPending = <<>> THEN upLines ELSE SubSeq(upLines, 1, Len(upLines) - 1)

\* the terminal frames written, in order
FinishFrames == SelectSeq(out, LAMBDA f : f.kind = "finish")

\* C11, as stated: while the response is open, every arguments string of a tool
\* call of a processed upstream frame has been written in an argument-fragment
\* frame for that tool call's index.
C11_ArgumentsDelivered ==
    (pc = "streaming" /\ ~ended) =>
        \A i \in 1..Len(ProcessedLines) :
            LET tcs == Payload(ProcessedLines[i]).tool_calls
            IN \A t \in 1..Len(tcs) :
                   (~tcs[t].isNull /\ Truthy(tcs[t].arguments)) =>
                       \E j \in FramesOfKind("toolArgs") :
                           /\ out[j].tcIndex = t - 1
                           /\ out[j].arguments = tcs[t].arguments

\* C12, as stated: every processed upstream frame whose first choice has a
\* non-null finish_reason has its own terminal frame, with that finish_reason,
\* an empty delta, and the frame's usage totals or no usage field.
HasFinishReason(kind) ==
    Payload(kind).hasChoice /\ Payload(kind).finish_reason \notin {U, N}

TerminalFramesMatch(finishing) ==
    /\ Len(FinishFrames) <= Len(finishing)
    /\ ~ended => Len(FinishFrames) = Len(finishing)
    /\ \A k \in 1..Len(FinishFrames) :
           /\ k <= Len(finishing)
           /\ FinishFrames[k].finish_reason = Payload(finishing[k]).finish_reason
           /\ FinishFrames[k].usage = Payload(finishing[k]).usage
           /\ FinishFrames[k].content = U
           /\ FinishFrames[k].role = U
           /\ FinishFrames[k].name = U
           /\ FinishFrames[k].arguments = U

ReachesFinish(kind) ==
    /\ Payload(kind).hasChoice
    /\ Truthy(Payload(kind).finish_reason)
    /\ \A t \in 1..Len(Payload(kind).tool_calls) : ~Payload(kind).tool_calls[t].isNull

C13_UsageInLastFrame ==
    (pc = "streaming" /\ endedBy = "end" /\ ~lateWrites /\ upPending = <<>>
        /\ \E i \in 1..Len(upLines) : Truthy(Payload(upLines[i]).usage)) =>
            /\ Len(out) >= 2
            /\ out[Len(out)] = DoneFrame
            /\ out[Len(out) - 1].usage = "usage1"

\* C14: once the client socket has closed, the upstream response is unpiped and
\* destroyed and produces no further chunk for the client; the close finalizes
\* the response's context with the note "client connection closed" when it was
\* not finalized yet, and writes nothing when an earlier event had finalized it.
C14_ClientCloseUnsubscribes ==
    /\ [](closeSeen => (~piped /\ upDestroyed /\ ctxFinalized[context]))
    /\ [][closeSeen =>
            /\ upSent' = upSent
            /\ \A j \in 1..Len(pOut') : j > Len(pOut) => IsErrorPayload(pOut'[j])]_vars
    /\ [][(~closeSeen /\ closeSeen') =>
            IF ctxFinalized[context]
            THEN records' = records
            ELSE /\ ctxFinalized'[context]
                 /\ RECORD =>
                      /\ Len(records') = Len(records) + 1
                      /\ records'[Len(records')].ctx = context
                      /\ records'[Len(records')].note = "client connection closed"
                      /\ SubSeq(records', 1, Len(records)) = records]_vars

\* the client closed after one chunk, while the upstream was still streaming,
\* and the close is what finalized the exchange
C14_Witness ==
    /\ RECORD
    /\ closeSeen
    /\ upSent = 1
    /\ ~upEnded /\ ~abortedSeen /\ ~upErrorSeen /\ ~sinkErrorSeen
    /\ proxyErrors = 0
    /\ Len(records) = 1
    /\ records[1].note = "client connection closed"

\* C15: initializeConfig is invoked at most once by the intercepted route; once
\* it has thrown, every request that reaches the configuration step is answered
\* 500 "Configuration error" with the cached message and makes no upstream call;
\* once it has succeeded, no request is answered with a configuration error.
C15_ConfigInitializedOnce ==
    /\ initCalls <= 1
    /\ ~(configInitialized /\ configInitError # N)
    /\ (initCalls = 1) <=> (configInitialized \/ configInitError # N)
    /\ \A i \in 1..Len(intercepted) :
           LET e == intercepted[i]
           IN /\ (e.valid /\ configInitError # N) =>
                    /\ e.reply = InterceptReply(500, "Configuration error",
                                                IDetail(configInitError, -1))
                    /\ e.upstream = NoUpstreamReq
              /\ (e.valid /\ configInitialized) => e.reply.error # "Configuration error"
              /\ ~e.valid => e.reply.status = 400

\* three valid requests arrived after the key was found missing: one
\* invocation, three cached answers
C15_Witness ==
    /\ Len(intercepted) = 3
    /\ \A i \in 1..3 : intercepted[i].valid /\ intercepted[i].reply.status = 500
    /\ initCalls = 1
    /\ configInitError = ApiKeyNotFound

\* C16: the messages sent upstream have the length of the inbound array, and
\* element k is the normalization of inbound element k.
C16_MessagesInOrder ==
    (pc # "idle" /\ ValidationError(inBody) = "") =>
        /\ Len(upstreamCalls) = 1
        /\ Len(upstreamCalls[1].messages) = Len(inBody.messages.elems)
        /\ \A k \in 1..Len(inBody.messages.elems) :
               upstreamCalls[1].messages[k] = normalizeInboundMessage(inBody.messages.elems[k])

\* two different valid messages were sent upstream
C16_Witness ==
    /\ pc = "awaitOnce"
    /\ inBody.messages.elems = <<MsgObj("string", "tool"), MsgObj("string", "user")>>
    /\ upstreamCalls[1].messages[1].role = "tool"
    /\ upstreamCalls[1].messages[2].role = "user"

\* C17: normalizeModelName returns null, undefined and '' unchanged, a string
\* without ':' unchanged and otherwise the part before the first ':'; applied
\* to its own result it returns that result.
C17_NormalizeModelName ==
    fnName = "normalizeModelName" =>
        /\ Len(fnResult) >= 1 =>
              IF fnArg.ty # "string" THEN fnResult[1] = fnArg
              ELSE LET r == fnResult[1].v
                       s_ == fnArg.v
                   IN /\ fnResult[1].ty = "string"
                      /\ Len(r) <= Len(s_)
                      /\ r = SubSeq(s_, 1, Len(r))
                      /\ \A i \in 1..Len(r) : r[i] # ":"
                      /\ Len(r) < Len(s_) => s_[Len(r) + 1] = ":"
        /\ Len(fnResult) = 2 => fnResult[2] = fnResult[1]

\* a name with two colons was normalized twice
C17_Witness ==
    /\ fnName = "normalizeModelName"
    /\ fnArg = MStr(<<"g", ":", "t", ":">>)
    /\ fnResult = <<MStr(<<"g">>), MStr(<<"g">>)>>

\* C18: chunkText(s, n) is a non-empty list whose concatenation is s; every
\* chunk but the last has length n, the last has length 1..n, and the list for
\* the empty string is the one empty chunk.
RECURSIVE Flatten(_)
Flatten(chunks) == IF chunks = <<>> THEN <<>> ELSE Head(chunks) \o Flatten(Tail(chunks))

C18_ChunkTextPartitions ==
    (fnName = "chunkText" /\ Len(fnResult) = 1) =>
        LET chunks == fnResult[1]
        IN /\ Len(chunks) >= 1
           /\ Flatten(chunks) = fnArg.v
           /\ \A k \in 1..(Len(chunks) - 1) : Len(chunks[k]) = fnSize
           /\ fnArg.v = <<>> => chunks = << <<>> >>
           /\ fnArg.v # <<>> => Len(chunks[Len(chunks)]) \in 1..fnSize

\* a string of four characters was cut into chunks of three
C18_Witness ==
    /\ fnName = "chunkText"
    /\ fnSize = 3
    /\ fnResult = << << <<"g", ":", "t">>, <<"g">> >> >>

\* C19: with recording disabled no recorder operation touches the filesystem
\* and nothing is recorded, while the upstream status is committed and every
\* delivered chunk is written to the open client response as with recording.
C19_NoFilesystemWithoutRecord ==
    /\ [](~RECORD =>
            /\ fsOps = 0
            /\ records = <<>>
            /\ fileBytes = <<>>
            /\ ~fileExists /\ ~rspFile /\ ~responseBodyPath /\ ~wroteResponseBytes
            /\ preview = <<>>)
    /\ [][/\ (pStage = "proxying" /\ pStage' = "piping" /\ pHeadLog = <<>>) =>
                 pHeadLog' = <<upStatus'>>
          /\ (upSent' # upSent /\ ~pEnded) => Len(pOut') > Len(pOut)]_vars

\* without recording, a request with a body was proxied, two chunks were
\* forwarded, the upstream ended and a proxy error followed
C19_Witness ==
    /\ ~RECORD
    /\ reqBodyLen = 1
    /\ upSent = 2
    /\ Len(pOut) >= 2
    /\ upEnded
    /\ proxyErrors = 1
    /\ ctxFinalized[context]

\* C20, as stated: the JSON error body is written to the client exactly when
\* the proxy error handler also committed the 502 status; a response whose
\* headers were already sent gets neither.
C20_ErrorBodyOnlyWith502 ==
    /\ \A j \in 1..Len(pOut) : IsErrorPayload(pOut[j]) => pHeadLog = <<502>>
    /\ (proxyErrors >= 1 /\ pHeadLog = <<502>>) => \E j \in 1..Len(pOut) : IsErrorPayload(pOut[j])

\* C21: every tool call of a non-streaming reply has the upstream id when that
\* is non-empty and a generated 'call_' id otherwise, type "function", the
\* upstream name when that is non-empty and "unnamed" otherwise, and arguments
\* that are a string; the reply has one tool call per upstream tool call.
C21_ToolCallsNormalized ==
    (status = 200 /\ endedBy = "send") =>
        \A i \in 1..Len(replyBody.items) :
            replyBody.items[i].hasToolCalls =>
                LET ups == onceResp.choices[i].tool_calls
                    sent == replyBody.items[i].tool_calls
                IN /\ Len(sent) = Len(ups)
                   /\ \A t \in 1..Len(sent) :
                          /\ Truthy(sent[t].id)
                          /\ sent[t].id = IF ~ups[t].isNull /\ Truthy(ups[t].id)
                                          THEN ups[t].id ELSE "call_uuid"
                          /\ sent[t].type = "function"
                          /\ Truthy(sent[t].name)
                          /\ sent[t].name = IF ~ups[t].isNull /\ ups[t].hasFunction
                                                 /\ Truthy(ups[t].name)
                                            THEN ups[t].name ELSE "unnamed"
                          /\ IsStringValue(sent[t].arguments)

\* a reply was sent for a null tool call, one with an empty name, another type
\* and structured arguments, and one without id and function
C21_Witness ==
    /\ status = 200
    /\ endedBy = "send"
    /\ Len(replyBody.items) = 1
    /\ Len(replyBody.items[1].tool_calls) = 3
    /\ replyBody.items[1].tool_calls[2].id = "t2"
    /\ replyBody.items[1].tool_calls[2].name = "unnamed"
    /\ replyBody.items[1].tool_calls[2].arguments = ObjJson
    /\ replyBody.items[1].tool_calls[3].id = "call_uuid"

\* the processed upstream lines whose payload was parsed
ParsedLines == SelectSeq(ProcessedLines, LAMBDA k : k \in JsonKinds)

\* C22: every client frame of a streamed exchange carries the id and created
\* of the first parsed upstream frame, or the locally generated value for the
\* one that frame lacks; no later upstream frame changes them.
C22_IdentityPinned ==
    (pc = "streaming" /\ ParsedLines # <<>>) =>
        LET first == Payload(ParsedLines[1])
        IN \A j \in 1..Len(out) :
               out[j].kind # "DONE" =>
                   /\ out[j].id = IF Truthy(first.id) THEN first.id ELSE LocalRequestId
                   /\ out[j].created = IF first.created # 0 THEN first.created
                                       ELSE LocalCreated

\* a frame without id and created was transcoded, then one that has both
C22_Witness ==
    /\ pc = "streaming"
    /\ ProcessedLines = <<"contentNoId", "content2">>
    /\ Len(out) = 3
    /\ out[3].kind = "content"
    /\ out[3].id = LocalRequestId
    /\ out[3].created = LocalCreated

\* the line of an upstream line kind, newline removed, as one decoding of the
\* whole byte sequence yields it
WholeLine(kind) == SubSeq(Encode(kind), 1, Len(Encode(kind)) - 1)

\* C23, as stated: while the response is open, the frames written and the
\* transcoder state are those obtained by handling the complete lines of the
\* bytes delivered so far in one piece, however the bytes were partitioned;
\* the bytes of an unterminated line wait in the buffer.
C23_PartitionIndependent ==
    (pc = "streaming" /\ ~ended) =>
        LET ref == processLines([roleSent |-> FALSE, requestId |-> LocalRequestId,
                                 created |-> LocalCreated, frames |-> <<>>],
                                [i \in 1..Len(ProcessedLines) |-> WholeLine(ProcessedLines[i])])
        IN /\ out = ref.frames
           /\ roleSent = ref.roleSent
           /\ requestId = ref.requestId
           /\ created = ref.created

\* the upstream lines whose processing a step completes
NewlyProcessed == SubSeq(ProcessedLines', Len(ProcessedLines) + 1, Len(ProcessedLines'))

\* C24: a step of the data handler that goes through nothing but data lines whose
\* payload is not valid JSON writes no frame, does not end the response, and
\* leaves the role flag and the pinned id and created as they were; the line
\* buffer afterwards holds only the delivered bytes of the line still in flight.
C24_BadJsonSkipped ==
    [][(/\ pc = "streaming"
        /\ NewlyProcessed # <<>>
        /\ \A i \in 1..Len(NewlyProcessed) : NewlyProcessed[i] = "badJson")
       => /\ out' = out
          /\ ended' = ended
          /\ pc' = pc
          /\ status' = status
          /\ roleSent' = roleSent
          /\ requestId' = requestId
          /\ created' = created
          /\ Len(streamBuffer') + Len(upPending') =
                IF upPending' = <<>> THEN 0 ELSE Len(Encode(upLines'[Len(upLines')]))]_vars

\* a line that fails to parse arrived first and the valid line after it was
\* transcoded: role announcement and content, identity pinned from the valid line
C24_Witness ==
    /\ pc = "streaming"
    /\ ~ended
    /\ ProcessedLines = <<"badJson", "content">>
    /\ Len(out) = 2
    /\ out[1].kind = "role"
    /\ out[2].kind = "content"
    /\ requestId = Payload("content").id

\* C25: once the upstream stream has emitted 'end' or 'error' after the 200
\* headers, the client response is ended, whether or not a finish_reason was seen.
C25_EndedAfterUpstreamTerminates ==
    (pc = "streaming" /\ (endSeen \/ errorSeen)) => ended

\* the upstream ended after a content frame and without any finish_reason
C25_Witness ==
    /\ pc = "streaming"
    /\ endSeen
    /\ ~errorSeen
    /\ ended
    /\ endedBy = "end"
    /\ ProcessedLines = <<"content">>
    /\ FinishFrames = <<>>

\* C26: the 'error' handler writes no frame; it ends the response when it is
\* still open and does nothing when it has already ended.
C26_ErrorEndsWithoutFrame ==
    [][(pc = "streaming" /\ ~errorSeen /\ errorSeen')
       => /\ out' = out
          /\ lateWrites' = lateWrites
          /\ status' = status
          /\ headLog' = headLog
          /\ ended'
          /\ (ended => endedBy' = endedBy)
          /\ (~ended => endedBy' = "error")]_vars

\* the upstream failed after a content frame: the response is ended by the
\* 'error' handler and the content frame is the last thing written
C26_Witness ==
    /\ pc = "streaming"
    /\ errorSeen
    /\ ~endSeen
    /\ ended
    /\ endedBy = "error"
    /\ Len(out) = 2
    /\ out[2].kind = "content"

\* C27, as stated: once the client connection has closed during a streamed
\* response, nothing more is written to the client response: the frames written
\* are the ones written when it closed.
C27_NothingAfterDisconnect ==
    (pc = "streaming" /\ clientClosedAt >= 0) => Len(out) = clientClosedAt

\* C28, as stated: every exchange the intercepting route has answered has its
\* context finalized and, with recording on, exactly one consolidated record.
C28_OneRecordOnEveryExit ==
    \A i \in 1..Len(intercepted) :
        intercepted[i].stage = "done" =>
            /\ intercepted[i].finalized
            /\ RECORD => intercepted[i].logged = 1

\* C29, as stated: in the request sent upstream, every element of every
\* message's tool_calls array has a function whose arguments is a string.
C29_ArgumentsAreStrings ==
    (pc # "idle" /\ ValidationError(inBody) = "" /\ Len(upstreamCalls) = 1) =>
        \A k \in 1..Len(upstreamCalls[1].messages) :
            LET tcs == upstreamCalls[1].messages[k].tool_calls
            IN \A j \in 1..Len(tcs.elems) :
                  /\ ~tcs.elems[j].isNull
                  /\ tcs.elems[j].hasFunction
                  /\ IsStringValue(tcs.elems[j].arguments)

\* C30, as stated: a message whose role is a string other than system, user,
\* assistant or tool does not get the request rejected, and is sent upstream
\* with role "user".
C30_UnknownRoleCoerced ==
    (pc # "idle" /\ inBody.json /\ ~ModelMissing(inBody) /\ inBody.messages.isArray
        /\ EveryHasStringRole(inBody.messages.elems)) =>
        /\ status # 400
        /\ Len(upstreamCalls) = 1
        /\ \A k \in 1..Len(inBody.messages.elems) :
              inBody.messages.elems[k].role \notin {"system", "user", "assistant", "tool"} =>
                  upstreamCalls[1].messages[k].role = "user"

\* C31, as stated: every tool-call header frame written carries a defined id,
\* the type "function", a non-empty function name and empty arguments.
C31_HeaderFrameComplete ==
    \A k \in 1..Len(out) :
        out[k].kind = "toolHeader" =>
            /\ out[k].tcId \notin {U, N}
            /\ out[k].tcType = "function"
            /\ Truthy(out[k].name)
            /\ out[k].arguments = ""

\* the numbers of the upstream chunks of which the sequence holds a byte
ChunksIn(bytes) == {bytes[k][1] : k \in 1..Len(bytes)}

\* the bytes are upstream bytes only, in upstream order, every chunk from its
\* first byte on without a gap, and no chunk delivered so far is missing
UpstreamBytesInOrder(bytes) ==
    /\ ChunksIn(bytes) = 1..upSent
    /\ Len(bytes) >= 1 => bytes[1] = <<1, 1>>
    /\ \A k \in 1..(Len(bytes) - 1) :
          \/ bytes[k + 1] = <<bytes[k][1], bytes[k][2] + 1>>
          \/ bytes[k + 1] = <<bytes[k][1] + 1, 1>>

\* C32, as stated: the bytes written to the client are exactly the bytes of the
\* upstream chunks delivered so far, in upstream order, and while the response
\* file is open it holds the same bytes.
C32_TeeIsFaithful ==
    pStage = "piping" =>
        /\ UpstreamBytesInOrder(pOut)
        /\ rspFile => fileBytes = pOut

C34_BodyFileOnlyWhenWritten ==
    /\ \A k \in 1..Len(records) :
          records[k].body_file => (fileExists /\ fileBytes # <<>> /\ wroteResponseBytes)
    /\ (pStage = "piping" /\ RECORD /\ ~rspFile /\ ctxFinalized[context] /\ fileBytes = <<>>) =>
          /\ ~fileExists
          /\ \A k \in 1..Len(records) : ~records[k].body_file

\* C35, as stated: the request-body preview of a record is derived from at most
\* LOG_MAX_PREVIEW bytes of the body, whatever its length and content type.
C35_PreviewBounded ==
    (fnName = "previewDecode" /\ fnResult # <<>>) =>
        Len(fnResult[1].from) <= LOG_MAX_PREVIEW

\* C36, as stated: a failure of a recorder write never stops the forwarding of
\* the exchange: while the upstream response is being delivered the gateway
\* keeps running, whatever happened to the response file.
C36_RecorderFailureHarmless ==
    RECORD => pStage # "crashed"

\* the lines exchange e has gone through
StreamProcessed(e) ==
    IF streams[e].upPending = <<>> THEN streams[e].upLines
    ELSE SubSeq(streams[e].upLines, 1, Len(streams[e].upLines) - 1)

\* what exchange e writes when it runs alone: the frames of its own lines,
\* then [DONE] when its upstream ended
AloneFrames(e) ==
    LET ref == processLines([roleSent |-> FALSE, requestId |-> LocalRequestId,
                             created |-> LocalCreated, frames |-> <<>>],
                            [i \in 1..Len(StreamProcessed(e)) |->
                                WholeLine(StreamProcessed(e)[i])])
    IN ref.frames \o (IF streams[e].endSeen THEN <<DoneFrame>> ELSE <<>>)

\* C37: with two exchanges active and their upstream events interleaved, each
\* exchange has written exactly the frames it writes when it runs alone.
C37_ExchangesIndependent ==
    \A e \in Exchanges : streams[e].out = AloneFrames(e)

\* both exchanges are under way, the second announced its role and pinned its
\* identity after the first did, and each client holds its own frames
C37_Witness ==
    /\ streams[1].upLines = <<"content", "finish">>
    /\ streams[2].upLines = <<"content2">>
    /\ streams[1].upPending # <<>>
    /\ streams[2].upPending = <<>>
    /\ Len(streams[1].out) = 2
    /\ Len(streams[2].out) = 2
    /\ streams[1].requestId = Payload("content").id
    /\ streams[2].requestId = Payload("content2").id


\* C38, as stated: once the client response has been ended, no later upstream
\* event makes a write call on it or ends it a second time. The 'end' handler
\* is the only one that writes or ends without looking at writableEnded, so a
\* second end is a step of it taken while the response is already ended.
C38_NothingAfterClientEnd ==
    /\ [](~lateWrites)
    /\ [][ended => endSeen' = endSeen]_vars


\* C40: when the upstream emits 'end' while the line buffer holds a non-empty
\* unterminated line, that line is not parsed: the step writes the [DONE]
\* sentinel after the frames already written and nothing else, it leaves the
\* role flag and the pinned id and created alone, and no later event adds a frame.
C40_UnterminatedLineDropped ==
    /\ [][(pc = "streaming" /\ ~ended /\ streamBuffer # <<>> /\ ~endSeen /\ endSeen')
          => /\ out' = out \o <<DoneFrame>>
             /\ ended'
             /\ roleSent' = roleSent
             /\ requestId' = requestId
             /\ created' = created]_vars
    /\ [][ended => out' = out]_vars

\* the upstream ended after a whole content line and all of a finish line but
\* its newline: the client got the role, the content and the sentinel only
C40_Witness ==
    /\ pc = "streaming"
    /\ endedBy = "end"
    /\ upLines = <<"content", "finish">>
    /\ streamBuffer = WholeLine("finish")
    /\ Len(out) = 3
    /\ out[1].kind = "role"
    /\ out[2].kind = "content"
    /\ out[3] = DoneFrame


\* C39: the request sent upstream has the resolved target model, the normalized
\* inbound messages in order and the stream flag of the call shape (true for the
\* streaming call, false for the buffered one); every other field of the client
\* body is in it as the client sent it, and no field of the client body stands
\* in place of model, messages or stream.
C39_UpstreamRequestShape ==
    (pc # "idle" /\ ValidationError(inBody) = "") =>
        /\ Len(upstreamCalls) = 1
        /\ upstreamCalls[1].model = targetModel(inBody.model.v)
        /\ upstreamCalls[1].messages = MapNormalize(inBody.messages.elems)
        /\ upstreamCalls[1].stream = inBody.stream
        /\ (pc = "awaitStream" => upstreamCalls[1].stream)
        /\ (pc = "awaitOnce" => ~upstreamCalls[1].stream)
        /\ upstreamCalls[1].rest = inBody.rest

\* a streaming request for a model outside the glm family that carries another
\* field and a message in need of normalization
C39_Witness ==
    /\ pc = "awaitStream"
    /\ inBody.model.v = ModelOther
    /\ inBody.rest = "temperature"
    /\ inBody.messages.elems = <<MsgObj("string", "user"), MsgObj("string", "tool")>>
    /\ Len(upstreamCalls) = 1
    /\ upstreamCalls[1].model # ModelOther
    /\ upstreamCalls[1].rest = "temperature"
    /\ upstreamCalls[1].stream

====
